---- MODULE Spec2Model ----
(***************************************************************************)
(* Model of the selector validators of str2table (crate core):             *)
(*   validate_force_parse      core/src/setting/input.rs                   *)
(*   validate_export_subtable  core/src/setting/output.rs                  *)
(*   validate_export_color     core/src/setting/output.rs                  *)
(* A string is a sequence of one-character strings.  One run of the model  *)
(* is one call of one validator: every step is one iteration of the `for   *)
(* part in parts` loop, followed by the code after the loop.               *)
(* The functions of the diagnostics (core/src/error.rs) and of the cells   *)
(* (src/tablecellcore.rs, core/src/tablecell.rs, src/tablecell.rs) are     *)
(* called in one step: call holds the function and its arguments, ret what *)
(* it returns.                                                             *)
(***************************************************************************)
EXTENDS Integers, Sequences, FiniteSets, TLC

VARIABLES grammar, s, idx, location, result, lines, columns, linecolumn,
          outcome, pc, call, ret, table, iter, frames

vars == <<grammar, s, idx, location, result, lines, columns, linecolumn,
          outcome, pc, call, ret, table, iter, frames>>

(***************************************************************************)
(* Bounds of the inputs.                                                   *)
(***************************************************************************)
MaxTokens == 3

\* the greatest start and end index of a call on the lines of a table
MaxIndex == 4

(***************************************************************************)
(* Characters.                                                             *)
(***************************************************************************)
Digits == {"0", "1", "2", "3", "4", "5", "6", "7", "8", "9"}

\* the characters of the model's inputs; `.` of a regex matches each of them
\* (it matches every character but a line feed, which no input holds)
Alphabet == Digits \cup {"-", ",", " ", "l", "c", "L", "C", "s", "i", "f",
                         "S", "I", "F", "r", "g", "y", "x", "R", "G", "Y", "X",
                         "q", "a"}

\* char::is_whitespace restricted to the alphabet
Whitespace == {" "}

DigitVal == [d \in Digits |->
    CASE d = "0" -> 0 [] d = "1" -> 1 [] d = "2" -> 2 [] d = "3" -> 3
      [] d = "4" -> 4 [] d = "5" -> 5 [] d = "6" -> 6 [] d = "7" -> 7
      [] d = "8" -> 8 [] d = "9" -> 9]

(***************************************************************************)
(* Sequence helpers.                                                       *)
(***************************************************************************)
Drop(str, n) == SubSeq(str, n + 1, Len(str))

Take(str, n) == SubSeq(str, 1, n)

\* position of the first occurrence of character c in str, 0 when absent
IndexOf(str, c) ==
    IF \E k \in 1..Len(str) : str[k] = c
    THEN CHOOSE k \in 1..Len(str) :
            str[k] = c /\ \A j \in 1..(k - 1) : str[j] # c
    ELSE 0

\* str::rsplit(','): the pieces from the last to the first
RECURSIVE SplitReversed(_)
SplitReversed(str) ==
    LET k == IndexOf(str, ",") IN
    IF k = 0 THEN <<str>>
    ELSE SplitReversed(Drop(str, k)) \o <<Take(str, k - 1)>>

\* str::split(','): the pieces between the commas, n commas give n+1 pieces
RECURSIVE Split(_)
Split(str) ==
    LET k == IndexOf(str, ",") IN
    IF k = 0 THEN <<str>>
    ELSE <<Take(str, k - 1)>> \o Split(Drop(str, k))

\* str::trim: without the leading and the trailing whitespace
RECURSIVE TrimStart(_)
TrimStart(str) ==
    IF str # <<>> /\ Head(str) \in Whitespace THEN TrimStart(Tail(str)) ELSE str

RECURSIVE TrimEnd(_)
TrimEnd(str) ==
    IF str # <<>> /\ str[Len(str)] \in Whitespace
    THEN TrimEnd(Take(str, Len(str) - 1)) ELSE str

Trim(str) == TrimEnd(TrimStart(str))

(***************************************************************************)
(* Regular expressions: a pattern is a sequence of elements, each a        *)
(* character class taken once, one or more times ("+"), or any number of   *)
(* times ("star").  All patterns of the regex sets are anchored.           *)
(***************************************************************************)
One(cls) == [t |-> "one", cls |-> cls]

Plus(cls) == [t |-> "plus", cls |-> cls]

Star(cls) == [t |-> "star", cls |-> cls]

RECURSIVE Match(_, _)
Match(pat, str) ==
    IF pat = <<>> THEN str = <<>>
    ELSE LET h == Head(pat)
             lo == IF h.t = "star" THEN 0 ELSE 1
             hi == IF h.t = "one" THEN 1 ELSE Len(str)
         IN \E k \in lo..hi :
               /\ k <= Len(str)
               /\ \A j \in 1..k : str[j] \in h.cls
               /\ Match(Tail(pat), Drop(str, k))

ReDigits == Plus(Digits)

ReDash == One({"-"})

ReAny == Star(Alphabet)

ReLc == One({"l", "c", "L", "C"})

ReType == One({"s", "i", "f", "S", "I", "F"})

ReColor == One({"r", "g", "b", "y", "x", "w", "R", "G", "Y", "B", "X", "W"})

\* the greatest index of a matching pattern instead of the least
LastMatch(regex_set, part) ==
    LET hit == {i \in 1..Len(regex_set) : Match(regex_set[i], part)} IN
    IF hit = {} THEN -1
    ELSE (CHOOSE i \in hit : \A j \in hit : i >= j) - 1

\* RegexSet::matches(part)[0]: the least index of a matching pattern,
\* -1 when matches is empty
FirstMatch(regex_set, part) ==
    LET hit == {i \in 1..Len(regex_set) : Match(regex_set[i], part)} IN
    IF hit = {} THEN -1
    ELSE (CHOOSE i \in hit : \A j \in hit : i <= j) - 1

(***************************************************************************)
(* Numbers: "<digits>".parse::<usize>().unwrap()                           *)
(***************************************************************************)
\* usize::MAX = 18446744073709551615 (64-bit target), as decimal digits
UsizeMaxDigits == <<"1", "8", "4", "4", "6", "7", "4", "4", "0", "7",
                    "3", "7", "0", "9", "5", "5", "1", "6", "1", "5">>

RECURSIVE StripZeros(_)
StripZeros(digs) ==
    IF Len(digs) > 1 /\ Head(digs) = "0" THEN StripZeros(Tail(digs)) ELSE digs

\* a <= b for two digit strings of the same length
RECURSIVE DigitsLeq(_, _)
DigitsLeq(a, b) ==
    IF a = <<>> THEN TRUE
    ELSE IF DigitVal[Head(a)] # DigitVal[Head(b)]
         THEN DigitVal[Head(a)] < DigitVal[Head(b)]
         ELSE DigitsLeq(Tail(a), Tail(b))

\* parse::<usize>() is Ok: the value is at most usize::MAX
FitsUsize(digs) ==
    LET d == StripZeros(digs) IN
    \/ Len(d) < Len(UsizeMaxDigits)
    \/ Len(d) = Len(UsizeMaxDigits) /\ DigitsLeq(d, UsizeMaxDigits)

\* the value of a digit string that fits
RECURSIVE DigitsValue(_, _)
DigitsValue(digs, acc) ==
    IF digs = <<>> THEN acc
    ELSE DigitsValue(Tail(digs), acc * 10 + DigitVal[Head(digs)])

ParseUsize(digs) == DigitsValue(digs, 0)

(***************************************************************************)
(* Vec helpers.                                                            *)
(***************************************************************************)
\* start..end, the end left out
RangeExclusive(start, end) == [i \in 1..(end - start) |-> start + i - 1]

\* start..=end as the sequence of its values; empty when start > end
RangeInclusive(start, end) == [i \in 1..(end - start + 1) |-> start + i - 1]

\* every index of seq paired with the attribute attr
Pair(seq, attr) == [i \in 1..Len(seq) |-> <<seq[i], attr>>]

\* dedup left out
DedupSkipped(seq) == seq

\* Vec::dedup: consecutive equal elements collapse to the first of them
RECURSIVE Dedup(_)
Dedup(seq) ==
    IF Len(seq) <= 1 THEN seq
    ELSE IF seq[1] = seq[2] THEN Dedup(Tail(seq))
         ELSE <<seq[1]>> \o Dedup(Tail(seq))

\* x put into the sorted sequence of (index, attribute) pairs behind every
\* element whose index is at most its own
InsertByIndex(sorted, x) ==
    LET n == Cardinality({i \in 1..Len(sorted) : sorted[i][1] <= x[1]}) IN
    Take(sorted, n) \o <<x>> \o Drop(sorted, n)

\* result.sort_by(|a, b| a.0.cmp(&b.0)): stable, by index only
RECURSIVE SortByIndexFrom(_, _)
SortByIndexFrom(seq, sorted) ==
    IF seq = <<>> THEN sorted
    ELSE SortByIndexFrom(Tail(seq), InsertByIndex(sorted, Head(seq)))

SortByIndex(seq) == SortByIndexFrom(seq, <<>>)

\* sort left out
SortSkipped(seq) == seq

\* Vec<usize>::sort
RECURSIVE SortFrom(_, _)
SortFrom(seq, sorted) ==
    IF seq = <<>> THEN sorted
    ELSE LET x == Head(seq)
             n == Cardinality({i \in 1..Len(sorted) : sorted[i] <= x})
         IN SortFrom(Tail(seq), Take(sorted, n) \o <<x>> \o Drop(sorted, n))

Sort(seq) == SortFrom(seq, <<>>)

\* format!("{:?}", (index, attribute))
DebugPair(p) == "(" \o ToString(p[1]) \o ", " \o p[2] \o ")"

(***************************************************************************)
(* Letter tables.                                                          *)
(***************************************************************************)
\* the table without its upper-case arms
LineColumn_from_str_lower(c) ==
    CASE c = "l" -> "Line"
      [] c = "c" -> "Column"
      [] OTHER -> "Err"

\* LineColumn::from_str
LineColumn_from_str(c) ==
    CASE c \in {"l", "L"} -> "Line"
      [] c \in {"c", "C"} -> "Column"
      [] OTHER -> "Err"

\* ForceType::from_str
ForceType_from_str(c) ==
    CASE c \in {"s", "S"} -> "S"
      [] c \in {"i", "I"} -> "I"
      [] c \in {"f", "F"} -> "F"
      [] OTHER -> "Err"

\* OutputColor::from_str
OutputColor_from_str(c) ==
    CASE c \in {"r", "R"} -> "Red"
      [] c \in {"g", "G"} -> "Green"
      [] c \in {"b", "B"} -> "Blue"
      [] c \in {"y", "Y"} -> "Yellow"
      [] c \in {"x", "X"} -> "Grey"
      [] c \in {"w", "W"} -> "White"
      [] OTHER -> "Err"

(***************************************************************************)
(* Results of a validator: Ok(value), Err(ArgError) or a panic.            *)
(***************************************************************************)
NoError == [argkind |-> "-", diag |-> "-", keyword |-> "-", error_arg |-> <<>>,
            error_location |-> <<>>, conflicts |-> <<>>]

\* ArgError::new(kind, Some(reason), Some(part), Some(s), location, hint):
\* diag is the diagnostic whose message is the reason (a RangeErrorKind,
\* KeywordMissing with its keyword, Conflicts with its conflicts_vec, or the
\* literal "more than one error"); error_location <<>> is None
ArgError(argkind, diag, keyword, error_arg, error_location, conflicts) ==
    [argkind |-> argkind, diag |-> diag, keyword |-> keyword,
     error_arg |-> error_arg, error_location |-> error_location,
     conflicts |-> conflicts]

Pending == [kind |-> "None", value |-> <<>>, err |-> NoError]

Ok(value) == [kind |-> "Ok", value |-> value, err |-> NoError]

Err(e) == [kind |-> "Err", value |-> <<>>, err |-> e]

Panic == [kind |-> "Panic", value |-> <<>>, err |-> NoError]

\* Option: None, or Some(x)
None == <<>>

Some(x) == <<x>>

\* no function of the diagnostics or of the cells is called
NoCall == [fn |-> "-"]

\* no table is being built or changed
NoTable == table = <<>> /\ iter = 0 /\ frames = <<>>

\* the locals of a validator at the head of the loop, before the first part
Start == [idx |-> 1, location |-> 0, result |-> <<>>, lines |-> <<>>,
          columns |-> <<>>, linecolumn |-> "None", outcome |-> Pending,
          pc |-> "loop"]

\* the validator returns (or unwinds) with outcome o
Return(st, o) == [st EXCEPT !.outcome = o, !.pc = "done"]

(***************************************************************************)
(* validate_force_parse (core/src/setting/input.rs)                        *)
(***************************************************************************)
force_regex_set == <<
    \* 0. correct format with a range
    <<ReDigits, ReDash, ReDigits, ReLc, ReType>>,
    \* 1. correct format with a single number
    <<ReDigits, ReLc, ReType>>,
    \* 2. wrong format with a wrong right side
    <<ReDigits, ReDash, ReAny, ReLc, ReType>>,
    \* 3. wrong format with a wrong left side
    <<ReAny, ReDash, ReDigits, ReLc, ReType>>,
    \* 4. wrong format with both sides wrong
    <<ReAny, ReDash, ReAny, ReLc, ReType>>,
    \* 5. wrong format with wrong number (single)
    <<ReAny, ReLc, ReType>>,
    \* 6. wrong format with wrong type (range)
    <<ReDigits, ReDash, ReDigits, ReLc, ReAny>>,
    \* 7. wrong format with wrong type (single)
    <<ReDigits, ReLc, ReAny>>,
    \* 8. wrong format with wrong line/column (range)
    <<ReDigits, ReDash, ReDigits, ReAny, ReType>>,
    \* 9. wrong format with wrong line/column (single)
    <<ReDigits, ReAny, ReType>> >>

\* the keywords of the branches 6, 7 and 8, 9 exchanged
force_diagnostic_swapped(m, part, loc) ==
    CASE m = -1 -> ArgError("WrongFormat", "MoreThanOneError", "-", part, loc, <<>>)
      [] m = 2 -> ArgError("WrongFormat", "RightSideError", "-", part, loc, <<>>)
      [] m = 3 -> ArgError("WrongFormat", "LeftSideError", "-", part, loc, <<>>)
      [] m = 4 -> ArgError("WrongFormat", "BothSidesError", "-", part, loc, <<>>)
      [] m = 5 -> ArgError("WrongFormat", "SingleNumberError", "-", part, loc, <<>>)
      [] m \in {6, 7} ->
            ArgError("WrongFormat", "KeywordMissing", "line or column", part, loc, <<>>)
      [] m \in {8, 9} ->
            ArgError("WrongFormat", "KeywordMissing", "type", part, loc, <<>>)

\* the diagnostic of the branch `matches[0] == m` of validate_force_parse,
\* m in 2..9 or -1 (matches is empty)
force_diagnostic(m, part, loc) ==
    CASE m = -1 -> ArgError("WrongFormat", "MoreThanOneError", "-", part, loc, <<>>)
      [] m = 2 -> ArgError("WrongFormat", "RightSideError", "-", part, loc, <<>>)
      [] m = 3 -> ArgError("WrongFormat", "LeftSideError", "-", part, loc, <<>>)
      [] m = 4 -> ArgError("WrongFormat", "BothSidesError", "-", part, loc, <<>>)
      [] m = 5 -> ArgError("WrongFormat", "SingleNumberError", "-", part, loc, <<>>)
      [] m \in {6, 7} ->
            ArgError("WrongFormat", "KeywordMissing", "type", part, loc, <<>>)
      [] m \in {8, 9} ->
            ArgError("WrongFormat", "KeywordMissing", "line or column", part, loc, <<>>)

\* the Conflicts error of parse_single_force and parse_range_force
force_axis_conflict(part, loc) ==
    ArgError("WrongFormat", "Conflicts", "-", part, loc, <<"l", "c">>)

\* parse_single_force without the comparison of lc and linecolumn
parse_single_force_unchecked(part, loc, lc_seen) ==
    LET n == Len(part)
        digs == Take(part, n - 2)
    IN IF ~FitsUsize(digs) THEN Panic
       ELSE Ok(<<ParseUsize(digs), LineColumn_from_str(part[n - 1]),
                 ForceType_from_str(part[n])>>)

\* parse_single_force(part, whole_arg, location, linecolumn) for a part that
\* matches pattern 1: Ok((start, lc, force_type)), Err or a panic of unwrap
parse_single_force(part, loc, lc_seen) ==
    LET n == Len(part)
        digs == Take(part, n - 2)
        lc == LineColumn_from_str(part[n - 1])
        force_type == ForceType_from_str(part[n])
    IN IF ~FitsUsize(digs) THEN Panic
       ELSE IF lc # lc_seen /\ lc_seen # "None"
            THEN Err(force_axis_conflict(part, loc))
            ELSE Ok(<<ParseUsize(digs), lc, force_type>>)

\* parse_range_force(part, whole_arg, location, linecolumn) for a part that
\* matches pattern 0: Ok(((start, end), lc, force_type)), Err or a panic
parse_range_force(part, loc, lc_seen) ==
    LET n == Len(part)
        dash == IndexOf(part, "-")
        start == Take(part, dash - 1)
        end == SubSeq(part, dash + 1, n - 2)
        lc == LineColumn_from_str(part[n - 1])
        force_type == ForceType_from_str(part[n])
    IN IF ~FitsUsize(start) \/ ~FitsUsize(end) THEN Panic
       ELSE IF lc # lc_seen /\ lc_seen # "None"
            THEN Err(force_axis_conflict(part, loc))
            ELSE Ok(<<<<ParseUsize(start), ParseUsize(end)>>, lc, force_type>>)

\* one iteration of `for part in parts` of validate_force_parse
validate_force_parse_part(str, st) ==
    LET part == Trim(Split(str)[st.idx])
        m == FirstMatch(force_regex_set, part)
        loc == <<st.location, st.location + Len(part)>>
        next == [st EXCEPT !.location = @ + Len(part) + 1, !.idx = @ + 1]
    IN CASE m = 0 ->
              LET r == parse_range_force(part, loc, st.linecolumn) IN
              IF r.kind # "Ok" THEN Return(st, r)
              ELSE [next EXCEPT
                      !.linecolumn = r.value[2],
                      !.result = @ \o Pair(RangeInclusive(r.value[1][1],
                                                          r.value[1][2]),
                                           r.value[3])]
         [] m = 1 ->
              LET r == parse_single_force(part, loc, st.linecolumn) IN
              IF r.kind # "Ok" THEN Return(st, r)
              ELSE [next EXCEPT
                      !.linecolumn = r.value[2],
                      !.result = Append(@, <<r.value[1], r.value[3]>>)]
         [] OTHER -> Return(st, Err(force_diagnostic(m, part, loc)))

\* the first i in 1..Len(seq)-1 with seq[i] and seq[i+1] of the same index,
\* 0 when there is none
FirstClash(seq) ==
    LET hit == {i \in 1..(Len(seq) - 1) : seq[i][1] = seq[i + 1][1]} IN
    IF hit = {} THEN 0 ELSE CHOOSE i \in hit : \A j \in hit : i <= j

\* validate_force_parse after the loop
validate_force_parse_end(str, st) ==
    IF st.linecolumn # "None"
    THEN LET sorted == Dedup(SortByIndex(st.result))
             i == FirstClash(sorted)
         IN IF Len(sorted) = 0 THEN Return(st, Panic)   \* assert_ne!
            ELSE IF i # 0
                 THEN Return(st, Err(ArgError("Conflicts", "Conflicts", "-", str,
                                     <<>>, <<DebugPair(sorted[i]),
                                             DebugPair(sorted[i + 1])>>)))
                 ELSE Return([st EXCEPT !.result = sorted],
                             Ok(<<sorted, st.linecolumn>>))
    ELSE Return(st, Err(ArgError("WrongFormat", "KeywordMissing",
                                 "line or column", str, <<>>, <<>>)))

(***************************************************************************)
(* validate_export_subtable (core/src/setting/output.rs)                   *)
(***************************************************************************)
subtable_regex_set == <<
    \* 0. correct range
    <<ReDigits, ReDash, ReDigits, ReLc>>,
    \* 1. correct single
    <<ReDigits, ReLc>>,
    \* 2. wrong format in left side of range
    <<ReAny, ReDash, ReDigits, ReLc>>,
    \* 3. wrong format in right side of range
    <<ReDigits, ReDash, ReAny, ReLc>>,
    \* 4. wrong format in both sides of range
    <<ReAny, ReDash, ReAny, ReLc>>,
    \* 5. wrong format in single
    <<ReAny, ReLc>>,
    \* 6. wrong format in line/column (range)
    <<ReDigits, ReDash, ReDigits, ReAny>>,
    \* 7. wrong format in line/column (single)
    <<ReDigits, ReAny>> >>

\* the diagnostics of validate_export_subtable in the order of the
\* force-parse patterns (2 = right side, 3 = left side)
subtable_diagnostic_force_order(m, part, loc) ==
    CASE m = -1 -> ArgError("WrongFormat", "MoreThanOneError", "-", part, loc, <<>>)
      [] m = 2 -> ArgError("WrongFormat", "RightSideError", "-", part, loc, <<>>)
      [] m = 3 -> ArgError("WrongFormat", "LeftSideError", "-", part, loc, <<>>)
      [] m = 4 -> ArgError("WrongFormat", "BothSidesError", "-", part, loc, <<>>)
      [] m = 5 -> ArgError("WrongFormat", "SingleNumberError", "-", part, loc, <<>>)
      [] m \in {6, 7} ->
            ArgError("WrongFormat", "KeywordMissing", "line or column", part, loc, <<>>)

\* the diagnostic of the branch `matches[0] == m` of
\* validate_export_subtable, m in 2..7 or -1 (matches is empty)
subtable_diagnostic(m, part, loc) ==
    CASE m = -1 -> ArgError("WrongFormat", "MoreThanOneError", "-", part, loc, <<>>)
      [] m = 2 -> ArgError("WrongFormat", "LeftSideError", "-", part, loc, <<>>)
      [] m = 3 -> ArgError("WrongFormat", "RightSideError", "-", part, loc, <<>>)
      [] m = 4 -> ArgError("WrongFormat", "BothSidesError", "-", part, loc, <<>>)
      [] m = 5 -> ArgError("WrongFormat", "SingleNumberError", "-", part, loc, <<>>)
      [] m \in {6, 7} ->
            ArgError("WrongFormat", "KeywordMissing", "line or column", part, loc, <<>>)

\* parse_range_subtable(s) for a part that matches pattern 0 (the leftmost
\* match of its unanchored regex is then the whole part):
\* Ok(((start, end), lc)) or a panic of unwrap
parse_range_subtable(part) ==
    LET n == Len(part)
        dash == IndexOf(part, "-")
        start == Take(part, dash - 1)
        end == SubSeq(part, dash + 1, n - 1)
    IN IF ~FitsUsize(start) \/ ~FitsUsize(end) THEN Panic
       ELSE Ok(<<<<ParseUsize(start), ParseUsize(end)>>,
                 LineColumn_from_str(part[n])>>)

\* parse_single_subtable(s) for a part that matches pattern 1
parse_single_subtable(part) ==
    LET n == Len(part)
        num == Take(part, n - 1)
    IN IF ~FitsUsize(num) THEN Panic
       ELSE Ok(<<ParseUsize(num), LineColumn_from_str(part[n])>>)

\* one iteration of `for part in parts` of validate_export_subtable
validate_export_subtable_part(str, st) ==
    LET part == Split(str)[st.idx]
        m == FirstMatch(subtable_regex_set, part)
        loc == <<st.location, st.location + Len(part)>>
        next == [st EXCEPT !.location = @ + Len(part), !.idx = @ + 1]
    IN CASE m = 0 ->
              LET r == parse_range_subtable(part) IN
              IF r.kind # "Ok" THEN Return(st, r)
              ELSE LET range == RangeInclusive(r.value[1][1], r.value[1][2]) IN
                   IF r.value[2] = "Line"
                   THEN [next EXCEPT !.lines = @ \o range]
                   ELSE [next EXCEPT !.columns = @ \o range]
         [] m = 1 ->
              LET r == parse_single_subtable(part) IN
              IF r.kind # "Ok" THEN Return(st, r)
              ELSE IF r.value[2] = "Line"
                   THEN [next EXCEPT !.lines = Append(@, r.value[1])]
                   ELSE [next EXCEPT !.columns = Append(@, r.value[1])]
         [] OTHER -> Return(st, Err(subtable_diagnostic(m, part, loc)))

\* validate_export_subtable after the loop
validate_export_subtable_end(str, st) ==
    LET ls == Dedup(Sort(st.lines))
        cs == Dedup(Sort(st.columns))
    IN Return([st EXCEPT !.lines = ls, !.columns = cs], Ok(<<ls, cs>>))

(***************************************************************************)
(* validate_export_color (core/src/setting/output.rs)                      *)
(***************************************************************************)
color_regex_set == <<
    \* 0. correct range
    <<ReDigits, ReDash, ReDigits, ReColor, ReLc>>,
    \* 1. correct single
    <<ReDigits, ReColor, ReLc>>,
    \* 2. wrong format in left side of range
    <<ReAny, ReDash, ReDigits, ReColor, ReLc>>,
    \* 3. wrong format in right side of range
    <<ReDigits, ReDash, ReAny, ReColor, ReLc>>,
    \* 4. wrong format in both sides of range
    <<ReAny, ReDash, ReAny, ReColor, ReLc>>,
    \* 5. wrong format in single
    <<ReAny, ReColor, ReLc>>,
    \* 6. wrong format in line/column (range)
    <<ReDigits, ReDash, ReDigits, ReColor, ReAny>>,
    \* 7. wrong format in line/column (single)
    <<ReDigits, ReColor, ReAny>>,
    \* 8. wrong format in color (range)
    <<ReDigits, ReDash, ReDigits, ReAny, ReLc>>,
    \* 9. wrong format in color (single)
    <<ReDigits, ReAny, ReLc>> >>

\* the diagnostic of the branch `matches[0] == m` of validate_export_color,
\* m in 2..9 or -1 (matches is empty)
color_diagnostic(m, part, loc) ==
    CASE m = -1 -> ArgError("WrongFormat", "MoreThanOneError", "-", part, loc, <<>>)
      [] m = 2 -> ArgError("WrongFormat", "LeftSideError", "-", part, loc, <<>>)
      [] m = 3 -> ArgError("WrongFormat", "RightSideError", "-", part, loc, <<>>)
      [] m = 4 -> ArgError("WrongFormat", "BothSidesError", "-", part, loc, <<>>)
      [] m = 5 -> ArgError("WrongFormat", "SingleNumberError", "-", part, loc, <<>>)
      [] m \in {6, 7} ->
            ArgError("WrongFormat", "KeywordMissing", "line or column", part, loc, <<>>)
      [] m \in {8, 9} ->
            ArgError("WrongFormat", "KeywordMissing", "color", part, loc, <<>>)

\* parse_range_color(s) for a part that matches pattern 0:
\* Ok(((start, end), color, lc)) or a panic of unwrap
parse_range_color(part) ==
    LET n == Len(part)
        dash == IndexOf(part, "-")
        start == Take(part, dash - 1)
        end == SubSeq(part, dash + 1, n - 2)
    IN IF ~FitsUsize(start) \/ ~FitsUsize(end) THEN Panic
       ELSE Ok(<<<<ParseUsize(start), ParseUsize(end)>>,
                 OutputColor_from_str(part[n - 1]),
                 LineColumn_from_str(part[n])>>)

\* parse_single_color(s) for a part that matches pattern 1
parse_single_color(part) ==
    LET n == Len(part)
        num == Take(part, n - 2)
    IN IF ~FitsUsize(num) THEN Panic
       ELSE Ok(<<ParseUsize(num), OutputColor_from_str(part[n - 1]),
                 LineColumn_from_str(part[n])>>)

\* one iteration of `for part in parts` of validate_export_color
validate_export_color_part(str, st) ==
    LET part == Split(str)[st.idx]
        m == FirstMatch(color_regex_set, part)
        loc == <<st.location, st.location + Len(part)>>
        next == [st EXCEPT !.location = @ + Len(part), !.idx = @ + 1]
    IN CASE m = 0 ->
              LET r == parse_range_color(part) IN
              IF r.kind # "Ok" THEN Return(st, r)
              ELSE LET range == Pair(RangeInclusive(r.value[1][1], r.value[1][2]),
                                     r.value[2])
                   IN IF r.value[3] = "Line"
                      THEN [next EXCEPT !.lines = @ \o range]
                      ELSE [next EXCEPT !.columns = @ \o range]
         [] m = 1 ->
              LET r == parse_single_color(part) IN
              IF r.kind # "Ok" THEN Return(st, r)
              ELSE IF r.value[3] = "Line"
                   THEN [next EXCEPT !.lines = Append(@, <<r.value[1], r.value[2]>>)]
                   ELSE [next EXCEPT !.columns = Append(@, <<r.value[1], r.value[2]>>)]
         [] OTHER -> Return(st, Err(color_diagnostic(m, part, loc)))

\* post_process_color(s, result): Ok(result), Err or a panic of assert_ne!
post_process_color(str, vec) ==
    LET sorted == Dedup(SortByIndex(vec))
        i == FirstClash(sorted)
    IN IF Len(sorted) = 0 THEN Panic
       ELSE IF i # 0
            THEN Err(ArgError("Conflicts", "Conflicts", "-", str, <<>>,
                              <<DebugPair(sorted[i]), DebugPair(sorted[i + 1])>>))
            ELSE Ok(sorted)

\* validate_export_color after the loop
validate_export_color_end(str, st) ==
    LET ls == post_process_color(str, st.lines) IN
    IF ls.kind # "Ok" THEN Return(st, ls)
    ELSE LET cs == post_process_color(str, st.columns) IN
         IF cs.kind # "Ok" THEN Return([st EXCEPT !.lines = ls.value], cs)
         ELSE Return([st EXCEPT !.lines = ls.value, !.columns = cs.value],
                     Ok(<<ls.value, cs.value>>))

(***************************************************************************)
(* Inputs: expressions of at most MaxTokens comma-separated tokens, the    *)
(* tokens of each grammar taken from the shapes its tests and its regex    *)
(* set distinguish.                                                        *)
(***************************************************************************)
\* a digit run whose value exceeds usize::MAX
TooLong == [i \in 1..Len(UsizeMaxDigits) |-> "9"]

ForceTokens == {
    <<"1", "l", "i">>,                  \* 1li
    <<"1", "l", "f">>,                  \* 1lf
    <<"2", "c", "i">>,                  \* 2ci
    <<"1", "-", "2", "l", "i">>,        \* 1-2li
    <<"2", "-", "1", "l", "i">>,        \* 2-1li
    <<"2", "f">>,                       \* 2f
    <<"1", "-", "2", "f">>,             \* 1-2f
    <<" ", "2", "l", "i">>,             \* " 2li"
    <<>>,                               \* the empty token
    TooLong \o <<"l", "i">> }

SubtableTokens == {
    <<"1", "l">>,                       \* 1l
    <<"2", "l">>,                       \* 2l
    <<"1", "c">>,                       \* 1c
    <<"1", "-", "2", "l">>,             \* 1-2l
    <<"2", "-", "1", "l">>,             \* 2-1l
    <<"2", "-", "3", "c">>,             \* 2-3c
    <<"1">>,                            \* 1
    <<" ", "1", "l">>,                  \* " 1l"
    <<>>,                               \* the empty token
    TooLong \o <<"l">> }

ColorTokens == {
    <<"1", "r", "l">>,                  \* 1rl
    <<"1", "g", "l">>,                  \* 1gl
    <<"1", "g", "c">>,                  \* 1gc
    <<"1", "-", "2", "r", "l">>,        \* 1-2rl
    <<"2", "-", "1", "g", "l">>,        \* 2-1gl
    <<"1", "r", "c">>,                  \* 1rc
    <<"1", "l">>,                       \* 1l
    <<"1", "r">>,                       \* 1r
    <<>>,                               \* the empty token
    TooLong \o <<"r", "l">> }

Grammars == {"force", "subtable", "color"}

Tokens(g) ==
    CASE g = "force" -> ForceTokens
      [] g = "subtable" -> SubtableTokens
      [] g = "color" -> ColorTokens

\* the tokens joined by commas
RECURSIVE Join(_)
Join(ts) ==
    IF Len(ts) = 1 THEN ts[1]
    ELSE ts[1] \o <<",">> \o Join(Tail(ts))

Expressions(g) ==
    {Join(ts) : ts \in UNION {[1..n -> Tokens(g)] : n \in 1..MaxTokens}}

(***************************************************************************)
(* The state machine: one call of one validator.                           *)
(***************************************************************************)
Cur == [idx |-> idx, location |-> location, result |-> result, lines |-> lines,
        columns |-> columns, linecolumn |-> linecolumn, outcome |-> outcome,
        pc |-> pc]

Assign(n) ==
    /\ idx' = n.idx
    /\ location' = n.location
    /\ result' = n.result
    /\ lines' = n.lines
    /\ columns' = n.columns
    /\ linecolumn' = n.linecolumn
    /\ outcome' = n.outcome
    /\ pc' = n.pc
    /\ UNCHANGED <<grammar, s, call, ret, table, iter, frames>>

\* one step of validator g on the expression str
Step(g, str, st) ==
    IF st.idx <= Len(Split(str))
    THEN CASE g = "force" -> validate_force_parse_part(str, st)
           [] g = "subtable" -> validate_export_subtable_part(str, st)
           [] g = "color" -> validate_export_color_part(str, st)
    ELSE CASE g = "force" -> validate_force_parse_end(str, st)
           [] g = "subtable" -> validate_export_subtable_end(str, st)
           [] g = "color" -> validate_export_color_end(str, st)

\* the whole call: what validator g returns for the expression str
RECURSIVE Run(_, _, _)
Run(g, str, st) ==
    IF st.pc = "done" THEN st.outcome ELSE Run(g, str, Step(g, str, st))

Validate(g, str) == Run(g, str, Start)

Init ==
    /\ grammar \in Grammars
    /\ s \in Expressions(grammar)
    /\ idx = Start.idx
    /\ location = Start.location
    /\ result = Start.result
    /\ lines = Start.lines
    /\ columns = Start.columns
    /\ linecolumn = Start.linecolumn
    /\ outcome = Start.outcome
    /\ pc = Start.pc
    /\ call = NoCall
    /\ ret = None
    /\ NoTable

ForcePart ==
    /\ pc = "loop" /\ grammar = "force" /\ idx <= Len(Split(s))
    /\ Assign(validate_force_parse_part(s, Cur))

ForceEnd ==
    /\ pc = "loop" /\ grammar = "force" /\ idx > Len(Split(s))
    /\ Assign(validate_force_parse_end(s, Cur))

SubtablePart ==
    /\ pc = "loop" /\ grammar = "subtable" /\ idx <= Len(Split(s))
    /\ Assign(validate_export_subtable_part(s, Cur))

SubtableEnd ==
    /\ pc = "loop" /\ grammar = "subtable" /\ idx > Len(Split(s))
    /\ Assign(validate_export_subtable_end(s, Cur))

ColorPart ==
    /\ pc = "loop" /\ grammar = "color" /\ idx <= Len(Split(s))
    /\ Assign(validate_export_color_part(s, Cur))

ColorEnd ==
    /\ pc = "loop" /\ grammar = "color" /\ idx > Len(Split(s))
    /\ Assign(validate_export_color_end(s, Cur))

Next ==
    \/ ForcePart
    \/ ForceEnd
    \/ SubtablePart
    \/ SubtableEnd
    \/ ColorPart
    \/ ColorEnd

Spec == Init /\ [][Next]_vars

(***************************************************************************)
(* The vocabulary of the claims, stated on the expression itself: its      *)
(* comma-separated tokens and the shape of each token.                     *)
(***************************************************************************)
Commas(str) == {k \in 1..Len(str) : str[k] = ","}

NumTokens(str) == Cardinality(Commas(str)) + 1

\* the position of the n-th comma; 0 before the first token, Len + 1 after
\* the last
CommaAt(str, n) ==
    IF n = 0 THEN 0
    ELSE IF n = NumTokens(str) THEN Len(str) + 1
    ELSE CHOOSE k \in Commas(str) :
            Cardinality({j \in Commas(str) : j <= k}) = n

\* the i-th piece between commas, as written
RawToken(str, i) == SubSeq(str, CommaAt(str, i - 1) + 1, CommaAt(str, i) - 1)

\* the i-th token as the grammar reads it: force-parse trims it
Token(g, str, i) ==
    IF g = "force" THEN Trim(RawToken(str, i)) ELSE RawToken(str, i)

IsNumber(x) == x # <<>> /\ \A i \in 1..Len(x) : x[i] \in Digits

SuffixLen(g) == IF g = "subtable" THEN 1 ELSE 2

AxisLetters == {"l", "c", "L", "C"}

AttrLetters(g) ==
    IF g = "force" THEN {"s", "i", "f", "S", "I", "F"}
    ELSE {"r", "g", "b", "y", "x", "w", "R", "G", "B", "Y", "X", "W"}

AxisLetterOf(g, tok) == IF g = "force" THEN tok[Len(tok) - 1] ELSE tok[Len(tok)]

AttrLetterOf(g, tok) == IF g = "force" THEN tok[Len(tok)] ELSE tok[Len(tok) - 1]

NumberPart(g, tok) == Take(tok, Len(tok) - SuffixLen(g))

GoodSuffix(g, tok) ==
    /\ Len(tok) > SuffixLen(g)
    /\ AxisLetterOf(g, tok) \in AxisLetters
    /\ g # "subtable" => AttrLetterOf(g, tok) \in AttrLetters(g)

\* <digits>-<digits>
IsRangeBody(x) ==
    \E k \in 1..Len(x) :
        x[k] = "-" /\ IsNumber(Take(x, k - 1)) /\ IsNumber(Drop(x, k))

IsSingle(g, tok) == GoodSuffix(g, tok) /\ IsNumber(NumberPart(g, tok))

IsRange(g, tok) == GoodSuffix(g, tok) /\ IsRangeBody(NumberPart(g, tok))

WellFormed(g, tok) == IsSingle(g, tok) \/ IsRange(g, tok)

\* the numbers of a well-formed token, as digit strings
StartDigits(g, tok) ==
    IF IsSingle(g, tok) THEN NumberPart(g, tok)
    ELSE Take(tok, IndexOf(tok, "-") - 1)

EndDigits(g, tok) ==
    IF IsSingle(g, tok) THEN NumberPart(g, tok)
    ELSE Drop(NumberPart(g, tok), IndexOf(tok, "-"))

\* no number of the well-formed token exceeds usize::MAX
NumbersFit(g, tok) ==
    FitsUsize(StartDigits(g, tok)) /\ FitsUsize(EndDigits(g, tok))

TokenStart(g, tok) == ParseUsize(StartDigits(g, tok))

TokenEnd(g, tok) == ParseUsize(EndDigits(g, tok))

TokenAxis(g, tok) ==
    IF AxisLetterOf(g, tok) \in {"l", "L"} THEN "Line" ELSE "Column"

TokenAttr(g, tok) ==
    LET c == AttrLetterOf(g, tok) IN
    IF g = "force"
    THEN CASE c \in {"s", "S"} -> "S" [] c \in {"i", "I"} -> "I"
           [] c \in {"f", "F"} -> "F"
    ELSE CASE c \in {"r", "R"} -> "Red" [] c \in {"g", "G"} -> "Green"
           [] c \in {"b", "B"} -> "Blue" [] c \in {"y", "Y"} -> "Yellow"
           [] c \in {"x", "X"} -> "Grey" [] c \in {"w", "W"} -> "White"

TokenIds == 1..NumTokens(s)

Tok(i) == Token(grammar, s, i)

\* every token is well-formed and its numbers fit usize
AllWellFormed ==
    \A i \in TokenIds : WellFormed(grammar, Tok(i)) /\ NumbersFit(grammar, Tok(i))

Done == pc = "done"

Axes == {"Line", "Column"}

\* the collection a finished, successful call returns for an axis
Collection(axis) ==
    IF grammar = "force"
    THEN (IF outcome.value[2] = axis THEN outcome.value[1] ELSE <<>>)
    ELSE (IF axis = "Line" THEN outcome.value[1] ELSE outcome.value[2])

IndexOfEntry(e) == IF grammar = "subtable" THEN e ELSE e[1]

Indices(axis) ==
    {IndexOfEntry(Collection(axis)[i]) : i \in 1..Len(Collection(axis))}

\* the well-formed tokens that name the axis
TokensOn(axis) ==
    {i \in TokenIds : WellFormed(grammar, Tok(i))
                      /\ TokenAxis(grammar, Tok(i)) = axis}

(***************************************************************************)
(* C1 (as stated): in a successful result every well-formed range token    *)
(* a-b contributes every index of [min(a,b), max(a,b)] to its axis, also   *)
(* when a > b.                                                             *)
(***************************************************************************)
Min(a, b) == IF a <= b THEN a ELSE b

Max(a, b) == IF a <= b THEN b ELSE a

C1_InvertedRangeNormalized ==
    (Done /\ outcome.kind = "Ok") =>
        \A axis \in Axes : \A i \in TokensOn(axis) :
            IsRange(grammar, Tok(i)) =>
                \A n \in Min(TokenStart(grammar, Tok(i)), TokenEnd(grammar, Tok(i)))
                         ..Max(TokenStart(grammar, Tok(i)), TokenEnd(grammar, Tok(i))) :
                    n \in Indices(axis)

(***************************************************************************)
(* C1 (amended): in a successful result the indices of an axis are exactly *)
(* the indices start..=end of the well-formed tokens of that axis, so a    *)
(* range a-b with a <= b contributes every index of [a, b] and a range     *)
(* with a > b contributes none; and no well-formed token, inverted ranges  *)
(* included, is reported as malformed.                                     *)
(***************************************************************************)
C1_RangeExpansion ==
    /\ (Done /\ outcome.kind = "Ok") =>
          \A axis \in Axes :
              Indices(axis) =
                  UNION {TokenStart(grammar, Tok(i))..TokenEnd(grammar, Tok(i)) :
                            i \in TokensOn(axis)}
    /\ (Done /\ outcome.kind = "Err" /\ outcome.err.diag # "Conflicts") =>
          ~WellFormed(grammar, outcome.err.error_arg)

\* a successful call whose expression holds an inverted and a proper range
C1_Witness ==
    /\ Done /\ outcome.kind = "Ok"
    /\ \E i, j \in TokenIds :
          /\ IsRange(grammar, Tok(i)) /\ IsRange(grammar, Tok(j))
          /\ TokenStart(grammar, Tok(i)) > TokenEnd(grammar, Tok(i))
          /\ TokenStart(grammar, Tok(j)) < TokenEnd(grammar, Tok(j))
          /\ TokenEnd(grammar, Tok(j)) \in Indices(TokenAxis(grammar, Tok(j)))

(***************************************************************************)
(* C2: every call ends with Ok or with one Err diagnostic; no input makes  *)
(* a validator panic.                                                      *)
(***************************************************************************)
C2_NoPanic == Done => outcome.kind \in {"Ok", "Err"}

(***************************************************************************)
(* C3: in a successful result every per-axis collection is strictly        *)
(* ascending by index, and sorting and de-duplicating it again changes     *)
(* nothing.                                                                *)
(***************************************************************************)
StrictlyAscending(seq) ==
    \A i \in 1..(Len(seq) - 1) : IndexOfEntry(seq[i]) < IndexOfEntry(seq[i + 1])

Resorted(seq) ==
    IF grammar = "subtable" THEN Dedup(Sort(seq)) ELSE Dedup(SortByIndex(seq))

C3_SortedUnique ==
    (Done /\ outcome.kind = "Ok") =>
        \A axis \in Axes :
            /\ StrictlyAscending(Collection(axis))
            /\ Resorted(Collection(axis)) = Collection(axis)

\* a successful call with a repeated index and tokens in descending order
C3_Witness ==
    /\ Done /\ outcome.kind = "Ok"
    /\ \E axis \in Axes : \E i, j, k \in TokensOn(axis) :
          /\ i < j /\ j < k
          /\ TokenStart(grammar, Tok(i)) > TokenStart(grammar, Tok(j))
          /\ TokenStart(grammar, Tok(j)) = TokenStart(grammar, Tok(k))
          /\ Len(Collection(axis)) >= 2

(***************************************************************************)
(* Index conflicts and failing tokens, stated on the expression.           *)
(***************************************************************************)
\* the (index, attribute) pairs the well-formed tokens bind on an axis
\* (force-parse and export-color)
BoundPairs(axis) ==
    UNION {{<<n, TokenAttr(grammar, Tok(i))>> :
               n \in TokenStart(grammar, Tok(i))..TokenEnd(grammar, Tok(i))} :
           i \in TokensOn(axis)}

\* two pairs of one axis with the same index and different attributes
Clash(axis, p, q) ==
    /\ p \in BoundPairs(axis) /\ q \in BoundPairs(axis)
    /\ p[1] = q[1] /\ p[2] # q[2]

ConflictOn(axis) ==
    grammar # "subtable" /\ \E p, q \in BoundPairs(axis) : Clash(axis, p, q)

SameAxis == \E axis \in Axes : TokensOn(axis) = TokenIds

Malformed(i) == ~WellFormed(grammar, Tok(i))

\* a well-formed force-parse token that names the axis opposite to the one
\* of the first token
AxisClash(i) ==
    /\ grammar = "force" /\ i > 1
    /\ WellFormed(grammar, Tok(1)) /\ WellFormed(grammar, Tok(i))
    /\ TokenAxis(grammar, Tok(i)) # TokenAxis(grammar, Tok(1))

TooBig(i) == WellFormed(grammar, Tok(i)) /\ ~NumbersFit(grammar, Tok(i))

Failing(i) == Malformed(i) \/ TooBig(i) \/ AxisClash(i)

\* the leftmost token of the set, 0 when the set is empty
Leftmost(ids) == IF ids = {} THEN 0 ELSE CHOOSE i \in ids : \A j \in ids : i <= j

FirstFailing == Leftmost({i \in TokenIds : Failing(i)})

FirstMalformed == Leftmost({i \in TokenIds : Malformed(i)})

\* the expression cut behind its k-th token
Prefix(k) == Take(s, CommaAt(s, k) - 1)

(***************************************************************************)
(* C4: an export-subtable or export-color expression whose well-formed     *)
(* tokens all name one axis (and bind no index to two colours) succeeds,   *)
(* with the indices in that axis's collection and the other one empty.     *)
(***************************************************************************)
C4_SingleAxisSucceeds ==
    (Done /\ grammar \in {"subtable", "color"} /\ AllWellFormed) =>
        \A axis \in Axes :
            (TokensOn(axis) = TokenIds /\ ~ConflictOn(axis)) =>
                /\ outcome.kind = "Ok"
                /\ Indices(axis) =
                      UNION {TokenStart(grammar, Tok(i))..TokenEnd(grammar, Tok(i)) :
                                i \in TokenIds}
                /\ \A other \in Axes \ {axis} : Collection(other) = <<>>

(***************************************************************************)
(* C5: with every token well-formed (and, in force-parse, of one axis), an *)
(* export-color or force-parse expression fails with a Conflicts           *)
(* diagnostic exactly when some index is bound to two different attributes *)
(* on the same axis, and the diagnostic names two such pairs.              *)
(***************************************************************************)
C5_ConflictsExactly ==
    (Done /\ grammar \in {"color", "force"} /\ AllWellFormed
          /\ (grammar = "force" => SameAxis)) =>
        /\ (outcome.kind = "Err" /\ outcome.err.argkind = "Conflicts")
              <=> (\E axis \in Axes : ConflictOn(axis))
        /\ (outcome.kind = "Err" /\ outcome.err.argkind = "Conflicts") =>
              \E axis \in Axes : \E p, q \in BoundPairs(axis) :
                  /\ Clash(axis, p, q)
                  /\ outcome.err.conflicts = <<DebugPair(p), DebugPair(q)>>

Orders(n) ==
    {f \in [1..n -> 1..n] : \A i, j \in 1..n : f[i] = f[j] => i = j}

Reordered(f) == Join([i \in 1..NumTokens(s) |-> RawToken(s, f[i])])

C7_ReorderInvariant ==
    (Done /\ grammar \in {"subtable", "color"} /\ outcome.kind = "Ok") =>
        \A f \in Orders(NumTokens(s)) :
            Validate(grammar, Reordered(f)) = outcome

\* a successful call on tokens written in descending order, with a result
\* of several indices
C7_Witness ==
    /\ Done /\ grammar \in {"subtable", "color"} /\ outcome.kind = "Ok"
    /\ \E i, j \in TokenIds :
          /\ i < j
          /\ TokenAxis(grammar, Tok(i)) = TokenAxis(grammar, Tok(j))
          /\ TokenStart(grammar, Tok(i)) > TokenEnd(grammar, Tok(j))
          /\ Len(Collection(TokenAxis(grammar, Tok(i)))) >= 2

(***************************************************************************)
(* C8: a force-parse expression is accepted only if every token carries    *)
(* its own axis letter and type letter; when its leftmost failing token is *)
(* digits (or a digit range) followed by a type letter only, the call      *)
(* fails with the 'line or column' keyword-missing diagnostic.             *)
(***************************************************************************)
\* <digits><type> or <digits>-<digits><type>
TypeOnly(tok) ==
    /\ Len(tok) >= 2
    /\ tok[Len(tok)] \in AttrLetters("force")
    /\ LET body == Take(tok, Len(tok) - 1) IN IsNumber(body) \/ IsRangeBody(body)

C10_LocationIsSpan ==
    (Done /\ outcome.kind = "Err" /\ outcome.err.error_location # <<>>) =>
        SubSeq(s, outcome.err.error_location[1] + 1,
                  outcome.err.error_location[2]) = outcome.err.error_arg

(***************************************************************************)
(* Single tokens built from their components: a number (or the two bounds  *)
(* of a range), the axis letter and the type or colour letter, each one    *)
(* well-formed, missing or garbled.                                        *)
(***************************************************************************)
GoodNumbers == {<<"1">>, <<"1", "2">>}

\* missing, garbled, digits followed by garbage
BadNumbers == {<<>>, <<"a">>, <<"1", "a">>}

GoodAxis == {<<"l">>, <<"C">>}

\* missing, garbled, a letter of the grammar's other class
BadAxis(g) ==
    {<<>>, <<"a">>} \cup (IF g = "force" THEN {<<"i">>}
                          ELSE IF g = "color" THEN {<<"r">>} ELSE {})

GoodAttr(g) ==
    IF g = "force" THEN {<<"i">>, <<"F">>}
    ELSE IF g = "color" THEN {<<"r">>, <<"G">>} ELSE {<<>>}

BadAttr(g) == IF g = "subtable" THEN {} ELSE {<<>>, <<"a">>, <<"l">>}

\* a token as the list of its components; right is unused in a single
Builds(g) ==
    [range : BOOLEAN,
     left : GoodNumbers \cup BadNumbers,
     right : GoodNumbers \cup BadNumbers,
     axis : GoodAxis \cup BadAxis(g),
     attr : GoodAttr(g) \cup BadAttr(g)]

\* the text of the token
Text(g, b) ==
    b.left \o (IF b.range THEN <<"-">> \o b.right ELSE <<>>)
           \o (IF g = "force" THEN b.axis \o b.attr ELSE b.attr \o b.axis)

\* the components in which the token departs from the well-formed shape
Departures(g, b) ==
    (IF b.left \in BadNumbers THEN {IF b.range THEN "left" ELSE "number"} ELSE {})
    \cup (IF b.range /\ b.right \in BadNumbers THEN {"right"} ELSE {})
    \cup (IF b.axis \in BadAxis(g) THEN {"axis"} ELSE {})
    \cup (IF b.attr \in BadAttr(g) THEN {"attr"} ELSE {})

SingleTokens(g) == {Text(g, b) : b \in Builds(g)}

RegexSet(g) ==
    CASE g = "force" -> force_regex_set
      [] g = "subtable" -> subtable_regex_set
      [] g = "color" -> color_regex_set

\* one call of one validator on an expression of a single token
TokenInit ==
    /\ grammar \in Grammars
    /\ s \in SingleTokens(grammar)
    /\ idx = Start.idx
    /\ location = Start.location
    /\ result = Start.result
    /\ lines = Start.lines
    /\ columns = Start.columns
    /\ linecolumn = Start.linecolumn
    /\ outcome = Start.outcome
    /\ pc = Start.pc
    /\ call = NoCall
    /\ ret = None
    /\ NoTable

TokenSpec == TokenInit /\ [][Next]_vars

(***************************************************************************)
(* C11: a token that departs from the well-formed shape in exactly one     *)
(* component (or in both bounds of a range) is rejected with the           *)
(* diagnostic of that component: LeftSideError, RightSideError,            *)
(* BothSidesError, SingleNumberError, KeywordMissing of the type or of the *)
(* colour, KeywordMissing of 'line or column'; a token that matches no     *)
(* category is rejected with 'more than one error'.                        *)
(***************************************************************************)
\* the inner diagnostic and its keyword for a set of departures
Expected(g, deps) ==
    CASE deps = {"left"} -> <<"LeftSideError", "-">>
      [] deps = {"right"} -> <<"RightSideError", "-">>
      [] deps = {"left", "right"} -> <<"BothSidesError", "-">>
      [] deps = {"number"} -> <<"SingleNumberError", "-">>
      [] deps = {"attr"} ->
            <<"KeywordMissing", IF g = "force" THEN "type" ELSE "color">>
      [] deps = {"axis"} -> <<"KeywordMissing", "line or column">>
      [] OTHER -> <<"-", "-">>

C11_DiagnosticOfComponent ==
    Done =>
        /\ \A b \in Builds(grammar) :
              (Text(grammar, b) = s /\ Expected(grammar, Departures(grammar, b))[1] # "-") =>
                  /\ outcome.kind = "Err"
                  /\ outcome.err.argkind = "WrongFormat"
                  /\ <<outcome.err.diag, outcome.err.keyword>>
                        = Expected(grammar, Departures(grammar, b))
                  /\ outcome.err.error_arg = s
        /\ FirstMatch(RegexSet(grammar), s) = -1 =>
              /\ outcome.kind = "Err"
              /\ outcome.err.argkind = "WrongFormat"
              /\ outcome.err.diag = "MoreThanOneError"

\* a range whose right bound only is bad, rejected with RightSideError
C11_Witness ==
    /\ Done /\ outcome.kind = "Err" /\ outcome.err.diag = "RightSideError"
    /\ \E b \in Builds(grammar) :
          Text(grammar, b) = s /\ Departures(grammar, b) = {"right"}

(***************************************************************************)
(* C12: selector parsing is case-insensitive in the axis, type and colour  *)
(* letters: replacing one such letter of the expression by its other-case  *)
(* form yields the same outcome, the same Ok result or a failure of the    *)
(* same category.                                                          *)
(***************************************************************************)
Lower == <<"l", "c", "s", "i", "f", "r", "g", "y", "x">>

Upper == <<"L", "C", "S", "I", "F", "R", "G", "Y", "X">>

OtherCase(c) ==
    IF \E n \in 1..Len(Lower) : Lower[n] = c
    THEN Upper[CHOOSE n \in 1..Len(Lower) : Lower[n] = c]
    ELSE IF \E n \in 1..Len(Upper) : Upper[n] = c
         THEN Lower[CHOOSE n \in 1..Len(Upper) : Upper[n] = c]
         ELSE c

\* the letters of the grammar's vocabulary
SelectorLetters(g) ==
    AxisLetters \cup (IF g = "subtable" THEN {} ELSE AttrLetters(g))

\* the positions of the expression that hold a letter of the vocabulary
LetterPositions == {k \in 1..Len(s) : s[k] \in SelectorLetters(grammar)}

SwapCase(str, k) == [str EXCEPT ![k] = OtherCase(str[k])]

\* the same Ok result, or a failure of the same category at the same place
SameOutcome(o1, o2) ==
    /\ o1.kind = o2.kind
    /\ o1.value = o2.value
    /\ o1.err.argkind = o2.err.argkind
    /\ o1.err.diag = o2.err.diag
    /\ o1.err.keyword = o2.err.keyword
    /\ o1.err.error_location = o2.err.error_location
    /\ o1.err.conflicts = o2.err.conflicts

C12_CaseInsensitive ==
    Done => \A k \in LetterPositions :
                /\ SwapCase(s, k) # s
                /\ SameOutcome(Validate(grammar, SwapCase(s, k)), outcome)

\* a successful call of several tokens whose upper-case variants succeed
C12_Witness ==
    /\ Done /\ outcome.kind = "Ok" /\ NumTokens(s) >= 2
    /\ Cardinality(LetterPositions) >= 2
    /\ \A k \in LetterPositions :
          Validate(grammar, SwapCase(s, k)).kind = "Ok"

(***************************************************************************)
(* The diagnostics (core/src/error.rs).  A message is the sequence of the  *)
(* pieces that message() pushes onto its String, so that the returned text *)
(* is their concatenation and the empty sequence is the empty string.      *)
(***************************************************************************)
\* enum ErrorLevel, in the order of its declaration
ErrorLevel == <<"Warning", "Error", "Fatal">>

\* derive(PartialOrd, Ord): the position of the variant in the declaration
LevelOrd(level) == CHOOSE n \in 1..Len(ErrorLevel) : ErrorLevel[n] = level

\* ErrorLevel::to_string
ErrorLevel_to_string(level) ==
    CASE level = "Warning" -> "[Warning]"
      [] level = "Error" -> "[Error]"
      [] level = "Fatal" -> "[Fatal]"

AttemptHeader == "\nProgram has tried this(these) attempt to fix this error:\n\t "

HintHeader == "\nYou may try the following method(s) to fix this:\n\t "

ReasonHeader == "\nThis error is caused by the following reason(s):\n "

\* the message with the reason section ahead of the hint section
message_text_reason_first(self) ==
    <<ErrorLevel_to_string(self.level), self.describe>>
    \o (IF self.attempt # None THEN <<AttemptHeader, self.attempt[1]>> ELSE <<>>)
    \o (IF self.reason # None THEN <<ReasonHeader, self.reason[1]>> ELSE <<>>)
    \o (IF self.hint # None THEN <<HintHeader, self.hint[1], " ">> ELSE <<>>)

\* the message as message() builds it, before the level is compared
message_text(self) ==
    <<ErrorLevel_to_string(self.level), self.describe>>
    \o (IF self.attempt # None THEN <<AttemptHeader, self.attempt[1]>> ELSE <<>>)
    \o (IF self.hint # None THEN <<HintHeader, self.hint[1], " ">> ELSE <<>>)
    \o (IF self.reason # None THEN <<ReasonHeader, self.reason[1]>> ELSE <<>>)

\* the comparison of message() as `>` instead of `>=`
message_strict(self, showing_level) ==
    IF LevelOrd(self.level) > LevelOrd(showing_level)
    THEN message_text(self) ELSE <<>>

\* ErrorType::message(&self, showing_level)
message(self, showing_level) ==
    IF LevelOrd(self.level) >= LevelOrd(showing_level)
    THEN message_text(self) ELSE <<>>

\* the values an implementation of ErrorType answers with: level(),
\* describe(), attempt(), hint() and reason()
ErrorTypes ==
    [level : {ErrorLevel[n] : n \in 1..Len(ErrorLevel)},
     describe : {"The format of this argument is wrong.",
                 "This argument causes conflict(s)."},
     attempt : {None, Some("attempt")},
     hint : {None, Some("Please check the reason.")},
     reason : {None, Some("[\"l\", \"c\"] conflict with each other.")}]

\* no validator runs
NoValidator ==
    /\ grammar = "-"
    /\ s = <<>>
    /\ idx = Start.idx
    /\ location = Start.location
    /\ result = Start.result
    /\ lines = Start.lines
    /\ columns = Start.columns
    /\ linecolumn = Start.linecolumn
    /\ outcome = Start.outcome

MessageInit ==
    /\ NoValidator
    /\ pc = "call"
    /\ call \in [fn : {"message"}, self : ErrorTypes,
                 showing_level : {ErrorLevel[n] : n \in 1..Len(ErrorLevel)}]
    /\ ret = None
    /\ NoTable

Message ==
    /\ pc = "call" /\ call.fn = "message"
    /\ ret' = message(call.self, call.showing_level)
    /\ pc' = "done"
    /\ UNCHANGED <<grammar, s, idx, location, result, lines, columns,
                   linecolumn, outcome, call, table, iter, frames>>

MessageNext == Message

MessageSpec == MessageInit /\ [][MessageNext]_vars

(***************************************************************************)
(* C13: with Warning < Error < Fatal, message(threshold) returns the       *)
(* complete message (the level tag, the description and every attempt,     *)
(* hint and reason the diagnostic has) when the level of the diagnostic is *)
(* at least the threshold, and the empty string otherwise; it never        *)
(* returns a part of the message.                                          *)
(***************************************************************************)
Severity(level) ==
    CASE level = "Warning" -> 1 [] level = "Error" -> 2 [] level = "Fatal" -> 3

\* the pieces of information a complete message of the diagnostic carries
Parts(self) ==
    {ErrorLevel_to_string(self.level), self.describe}
    \cup {self.attempt[i] : i \in 1..Len(self.attempt)}
    \cup {self.hint[i] : i \in 1..Len(self.hint)}
    \cup {self.reason[i] : i \in 1..Len(self.reason)}

Pieces(msg) == {msg[i] : i \in 1..Len(msg)}

C13_MessageGated ==
    (Done /\ call.fn = "message") =>
        /\ Severity(call.self.level) >= Severity(call.showing_level)
              => Parts(call.self) \subseteq Pieces(ret)
        /\ Severity(call.self.level) < Severity(call.showing_level)
              => ret = <<>>
        /\ ret # <<>> => Parts(call.self) \subseteq Pieces(ret)

\* an Error diagnostic with a hint and a reason, shown at threshold Error
C13_Witness ==
    /\ Done /\ call.fn = "message"
    /\ call.self.level = "Error" /\ call.showing_level = "Error"
    /\ call.self.hint # None /\ call.self.reason # None
    /\ Len(ret) >= 7

(***************************************************************************)
(* Numbers in cell texts.  IBig is a sign and the decimal digits of the    *)
(* magnitude; a float is NaN, an infinity, or a sign, the significant      *)
(* decimal digits digs (no zero at either end, empty for zero) and the     *)
(* position exp of the decimal point: the value is 0.digs * 10^exp.        *)
(***************************************************************************)
DigitChars == <<"0", "1", "2", "3", "4", "5", "6", "7", "8", "9">>

HexDigits == Digits \cup {"a", "b", "c", "d", "e", "f", "A", "B", "C", "D", "E", "F"}

HexVal(c) ==
    CASE c \in Digits -> DigitVal[c]
      [] c \in {"a", "A"} -> 10 [] c \in {"b", "B"} -> 11
      [] c \in {"c", "C"} -> 12 [] c \in {"d", "D"} -> 13
      [] c \in {"e", "E"} -> 14 [] c \in {"f", "F"} -> 15

\* every character is a digit (of the empty text too)
IsDigits(x) == \A i \in 1..Len(x) : x[i] \in Digits

\* the value of a text of digits of the radix
RECURSIVE RadixValue(_, _, _)
RadixValue(digs, radix, acc) ==
    IF digs = <<>> THEN acc
    ELSE RadixValue(Tail(digs), radix, acc * radix + HexVal(Head(digs)))

\* the decimal digits of a natural number
RECURSIVE ToDigits(_)
ToDigits(n) ==
    IF n < 10 THEN <<DigitChars[n + 1]>>
    ELSE ToDigits(n \div 10) \o <<DigitChars[(n % 10) + 1]>>

ParseError == [ok |-> FALSE]

\* UBig::from_str_radix_no_sign(src, radix): NoDigits for the empty text,
\* InvalidDigit for a character that is no digit of the radix
UBig_from_str_radix_no_sign(src, radix) ==
    IF src = <<>> THEN ParseError
    ELSE IF \E i \in 1..Len(src) :
               src[i] \notin HexDigits \/ HexVal(src[i]) >= radix
         THEN ParseError
         ELSE [ok |-> TRUE,
               mag |-> IF radix = 10 THEN StripZeros(src)
                       ELSE ToDigits(RadixValue(src, radix, 0))]

\* the same, with `_` between digits skipped as a separator
UBig_from_str_with_radix_prefix_no_sign_sep(src) ==
    LET digs == SelectSeq(src, LAMBDA c : c # "_") IN
    UBig_from_str_radix_no_sign(digs, 10)

\* UBig::from_str_with_radix_prefix_no_sign(src): radix 2 behind "0b",
\* 8 behind "0o", 16 behind "0x", 10 otherwise
UBig_from_str_with_radix_prefix_no_sign(src) ==
    IF Len(src) >= 2 /\ Take(src, 2) = <<"0", "b">>
    THEN UBig_from_str_radix_no_sign(Drop(src, 2), 2)
    ELSE IF Len(src) >= 2 /\ Take(src, 2) = <<"0", "o">>
    THEN UBig_from_str_radix_no_sign(Drop(src, 2), 8)
    ELSE IF Len(src) >= 2 /\ Take(src, 2) = <<"0", "x">>
    THEN UBig_from_str_radix_no_sign(Drop(src, 2), 16)
    ELSE UBig_from_str_radix_no_sign(src, 10)

\* IBig::from_str_with_radix_prefix(src): an optional sign, then the
\* magnitude; zero has no sign
IBig_from_str_with_radix_prefix(src) ==
    LET neg == src # <<>> /\ Head(src) = "-"
        body == IF src # <<>> /\ Head(src) \in {"+", "-"} THEN Tail(src) ELSE src
        m == UBig_from_str_with_radix_prefix_no_sign(body)
    IN IF ~m.ok THEN ParseError
       ELSE [ok |-> TRUE, neg |-> neg /\ m.mag # <<"0">>, mag |-> m.mag]

\* IBig::to_string
IBig_to_string(v) == (IF v.neg THEN <<"-">> ELSE <<>>) \o v.mag

(***************************************************************************)
(* str::parse::<f32>() and str::parse::<f64>(): the decimal literal is     *)
(* read exactly and rounded to the significant decimal digits the type     *)
(* keeps; beyond the largest exponent it is an infinity, below the         *)
(* smallest it is zero.                                                    *)
(***************************************************************************)
\* the significant decimal digits a float keeps and prints
F32_DIGITS == 8

F64_DIGITS == 17

\* 10^38 is the largest power of ten an f32 holds, 10^308 an f64
F32_MAX_10_EXP == 38

F64_MAX_10_EXP == 308

\* 10^-45 is the smallest power of ten an f32 tells from zero, 10^-324 an f64
F32_MIN_10_EXP == -45

F64_MIN_10_EXP == -324

F32 == [digits |-> F32_DIGITS, max_exp |-> F32_MAX_10_EXP, min_exp |-> F32_MIN_10_EXP]

F64 == [digits |-> F64_DIGITS, max_exp |-> F64_MAX_10_EXP, min_exp |-> F64_MIN_10_EXP]

ToLower(c) ==
    CASE c = "I" -> "i" [] c = "N" -> "n" [] c = "F" -> "f" [] c = "A" -> "a"
      [] c = "T" -> "t" [] c = "Y" -> "y" [] OTHER -> c

Lowercase(str) == [i \in 1..Len(str) |-> ToLower(str[i])]

\* position of the first character of str that is in set, 0 when absent
IndexOfAny(str, set) ==
    IF \E k \in 1..Len(str) : str[k] \in set
    THEN CHOOSE k \in 1..Len(str) :
            str[k] \in set /\ \A j \in 1..(k - 1) : str[j] \notin set
    ELSE 0

RECURSIVE StripLeadingZeros(_)
StripLeadingZeros(digs) ==
    IF digs # <<>> /\ Head(digs) = "0" THEN StripLeadingZeros(Tail(digs)) ELSE digs

RECURSIVE StripTrailingZeros(_)
StripTrailingZeros(digs) ==
    IF digs # <<>> /\ digs[Len(digs)] = "0"
    THEN StripTrailingZeros(Take(digs, Len(digs) - 1)) ELSE digs

NaN == [kind |-> "nan", neg |-> FALSE, digs |-> <<>>, exp |-> 0]

Infinity(neg) == [kind |-> "inf", neg |-> neg, digs |-> <<>>, exp |-> 0]

Zero(neg) == [kind |-> "num", neg |-> neg, digs |-> <<>>, exp |-> 0]

\* the number with the digits `all` and the decimal point `point` digits
\* behind the first of them
Number(neg, all, point) ==
    LET lead == StripLeadingZeros(all)
        digs == StripTrailingZeros(lead)
    IN IF digs = <<>> THEN Zero(neg)
       ELSE [kind |-> "num", neg |-> neg, digs |-> digs,
             exp |-> point - (Len(all) - Len(lead))]

\* the literal as an exact decimal number: an optional sign, then `inf`,
\* `infinity` or `nan` in any case, or digits with an optional `.` and an
\* optional exponent, at least one digit before the exponent
ParseDecimal(str) ==
    LET neg == str # <<>> /\ Head(str) = "-"
        body == IF str # <<>> /\ Head(str) \in {"+", "-"} THEN Tail(str) ELSE str
        low == Lowercase(body)
        e == IndexOfAny(body, {"e", "E"})
        mant == IF e = 0 THEN body ELSE Take(body, e - 1)
        expo == IF e = 0 THEN <<>> ELSE Drop(body, e)
        expneg == expo # <<>> /\ Head(expo) = "-"
        expdigs == IF expo # <<>> /\ Head(expo) \in {"+", "-"}
                   THEN Tail(expo) ELSE expo
        dot == IndexOf(mant, ".")
        int == IF dot = 0 THEN mant ELSE Take(mant, dot - 1)
        frac == IF dot = 0 THEN <<>> ELSE Drop(mant, dot)
        ok == /\ IsDigits(int) /\ IsDigits(frac) /\ Len(int) + Len(frac) > 0
              /\ e # 0 => (expdigs # <<>> /\ IsDigits(expdigs))
        exp10 == IF e = 0 THEN 0
                 ELSE IF expneg THEN 0 - ParseUsize(expdigs) ELSE ParseUsize(expdigs)
    IN IF low \in {<<"i", "n", "f">>, <<"i", "n", "f", "i", "n", "i", "t", "y">>}
       THEN [ok |-> TRUE, v |-> Infinity(neg)]
       ELSE IF low = <<"n", "a", "n">> THEN [ok |-> TRUE, v |-> NaN]
       ELSE IF ~ok THEN ParseError
       ELSE [ok |-> TRUE, v |-> Number(neg, int \o frac, Len(int) + exp10)]

\* the digits plus one in the last place; one digit longer on a carry out
RECURSIVE Increment(_)
Increment(digs) ==
    IF digs = <<>> THEN <<"1">>
    ELSE LET front == Take(digs, Len(digs) - 1)
             last == DigitVal[digs[Len(digs)]]
         IN IF last = 9 THEN Increment(front) \o <<"0">>
            ELSE front \o <<DigitChars[last + 2]>>

\* the exact number as the float type ty holds it
RoundTo(ty, v) ==
    IF v.kind # "num" \/ v.digs = <<>> THEN v
    ELSE LET kept == IF Len(v.digs) > ty.digits THEN Take(v.digs, ty.digits)
                     ELSE v.digs
             up == Len(v.digs) > ty.digits /\ DigitVal[v.digs[ty.digits + 1]] >= 5
             r == IF up THEN Increment(kept) ELSE kept
             exp == IF Len(r) > Len(kept) THEN v.exp + 1 ELSE v.exp
         IN IF exp - 1 > ty.max_exp THEN Infinity(v.neg)
            ELSE IF exp - 1 < ty.min_exp THEN Zero(v.neg)
            ELSE [kind |-> "num", neg |-> v.neg,
                  digs |-> StripTrailingZeros(r), exp |-> exp]

\* value.parse::<f32>() / value.parse::<f64>()
ParseFloat(ty, str) ==
    LET d == ParseDecimal(str) IN
    IF ~d.ok THEN ParseError ELSE [ok |-> TRUE, v |-> RoundTo(ty, d.v)]

Zeros(n) == [i \in 1..n |-> "0"]

\* the {:?} rendering of a float, which keeps a decimal point on integral
\* values (1.0, 0.0)
Float_to_string_debug(v) ==
    CASE v.kind = "nan" -> <<"N", "a", "N">>
      [] v.kind = "inf" -> (IF v.neg THEN <<"-">> ELSE <<>>) \o <<"i", "n", "f">>
      [] OTHER ->
           (IF v.neg THEN <<"-">> ELSE <<>>) \o
           (IF v.digs = <<>> THEN <<"0", ".", "0">>
            ELSE IF v.exp <= 0 THEN <<"0", ".">> \o Zeros(0 - v.exp) \o v.digs
            ELSE IF v.exp >= Len(v.digs)
                 THEN v.digs \o Zeros(v.exp - Len(v.digs)) \o <<".", "0">>
            ELSE Take(v.digs, v.exp) \o <<".">> \o Drop(v.digs, v.exp))

\* f32::to_string / f64::to_string (Display): NaN, inf, -inf, or the digits
\* written out in full without an exponent, the decimal point only before
\* a fraction
Float_to_string(v) ==
    CASE v.kind = "nan" -> <<"N", "a", "N">>
      [] v.kind = "inf" -> (IF v.neg THEN <<"-">> ELSE <<>>) \o <<"i", "n", "f">>
      [] OTHER ->
           (IF v.neg THEN <<"-">> ELSE <<>>) \o
           (IF v.digs = <<>> THEN <<"0">>
            ELSE IF v.exp <= 0 THEN <<"0", ".">> \o Zeros(0 - v.exp) \o v.digs
            ELSE IF v.exp >= Len(v.digs) THEN v.digs \o Zeros(v.exp - Len(v.digs))
            ELSE Take(v.digs, v.exp) \o <<".">> \o Drop(v.digs, v.exp))

is_infinite(v) == v.kind = "inf"

is_nan(v) == v.kind = "nan"

\* v == 0.0 (and v == -0.0)
is_zero(v) == v.kind = "num" /\ v.digs = <<>>

(***************************************************************************)
(* The cells: Tablecellcore (src/tablecellcore.rs), Tablecell with its     *)
(* colour (core/src/tablecell.rs), and the enum Tablecell of sized         *)
(* integers and floats (src/tablecell.rs), named SizedTablecell here.      *)
(* A function returns a plain value, a Result, or panics.                  *)
(***************************************************************************)
Value(x) == [kind |-> "Value", value |-> x, err |-> NoError]

\* Tablecellcore::String(v), ::Int(v), ::Float(v); the variants of the
\* sized enum carry their own tags
Cell(tag, v) == [tag |-> tag, v |-> v]

\* Tablecellcore::auto_from with the float parse tried before the integer
Tablecellcore_auto_from_float_first(value) ==
    LET int == IBig_from_str_with_radix_prefix(value)
        float == ParseFloat(F64, value)
    IN IF float.ok THEN Cell("Float", float.v)
       ELSE IF int.ok THEN Cell("Int", [neg |-> int.neg, mag |-> int.mag])
       ELSE Cell("String", value)

\* Tablecellcore::auto_from(value)
Tablecellcore_auto_from(value) ==
    LET int == IBig_from_str_with_radix_prefix(value)
        float == ParseFloat(F64, value)
    IN IF int.ok THEN Cell("Int", [neg |-> int.neg, mag |-> int.mag])
       ELSE IF float.ok THEN Cell("Float", float.v)
       ELSE Cell("String", value)

\* Tablecellcore::to_string
Tablecellcore_to_string(cell) ==
    CASE cell.tag = "String" -> cell.v
      [] cell.tag = "Int" -> IBig_to_string(cell.v)
      [] cell.tag = "Float" -> Float_to_string(cell.v)

\* force_as_int that falls back to the float parse
Tablecellcore_force_as_int_lenient(value) ==
    LET int == IBig_from_str_with_radix_prefix(value)
        float == ParseFloat(F64, value)
    IN IF int.ok THEN Ok(Cell("Int", [neg |-> int.neg, mag |-> int.mag]))
       ELSE IF float.ok THEN Ok(Cell("Float", float.v))
       ELSE Err("ParseError")

\* Tablecellcore::force_as_int(value): Err(ibig::error::ParseError) by `?`
Tablecellcore_force_as_int(value) ==
    LET int == IBig_from_str_with_radix_prefix(value) IN
    IF int.ok THEN Ok(Cell("Int", [neg |-> int.neg, mag |-> int.mag]))
    ELSE Err("ParseError")

\* Tablecellcore::force_as_float(value): Err(ParseFloatError) by `?`
Tablecellcore_force_as_float(value) ==
    LET float == ParseFloat(F64, value) IN
    IF float.ok THEN Ok(Cell("Float", float.v)) ELSE Err("ParseFloatError")

\* Tablecellcore::force_as_string(value)
Tablecellcore_force_as_string(value) == Cell("String", value)

\* OutputColor::default()
OutputColor_default == "Black"

\* struct Tablecell { core, color }
Tablecell(core, color) == [core |-> core, color |-> color]

\* Tablecell::auto_from(value)
Tablecell_auto_from(value) ==
    Value(Tablecell(Tablecellcore_auto_from(value), OutputColor_default))

\* Result::unwrap of a strict conversion inside Tablecell { core: .. }
Unwrap(r) ==
    IF r.kind = "Ok" THEN Value(Tablecell(r.value, OutputColor_default)) ELSE Panic

\* Tablecell::from_type(value, force_type)
Tablecell_from_type(value, force_type) ==
    CASE force_type = "S" ->
           Value(Tablecell(Tablecellcore_force_as_string(value), OutputColor_default))
      [] force_type = "I" -> Unwrap(Tablecellcore_force_as_int(value))
      [] force_type = "F" -> Unwrap(Tablecellcore_force_as_float(value))

\* Tablecell::force_as_string(value)
Tablecell_force_as_string(value) ==
    Value(Tablecell(Tablecellcore_force_as_string(value), OutputColor_default))

\* force_as_int that keeps the text as a String when the conversion fails
Tablecell_force_as_int_string(value) ==
    LET r == Tablecellcore_force_as_int(value) IN
    IF r.kind = "Ok" THEN Value(Tablecell(r.value, OutputColor_default))
    ELSE Tablecell_force_as_string(value)

\* Tablecell::force_as_int(value)
Tablecell_force_as_int(value) ==
    LET r == Tablecellcore_force_as_int(value) IN
    IF r.kind = "Ok" THEN Value(Tablecell(r.value, OutputColor_default))
    ELSE Tablecell_auto_from(value)

\* Tablecell::force_as_float(value)
Tablecell_force_as_float(value) ==
    LET r == Tablecellcore_force_as_float(value) IN
    IF r.kind = "Ok" THEN Value(Tablecell(r.value, OutputColor_default))
    ELSE Tablecell_auto_from(value)

(***************************************************************************)
(* The enum Tablecell of src/tablecell.rs.                                 *)
(***************************************************************************)
\* u8 .. u128, i8 .. i128 in the order auto_from tries them, each with its
\* MAX and the magnitude of its MIN
IntTypes == <<
    [tag |-> "U8", signed |-> FALSE,
     max |-> <<"2", "5", "5">>,
     min |-> <<"0">>],
    [tag |-> "U16", signed |-> FALSE,
     max |-> <<"6", "5", "5", "3", "5">>,
     min |-> <<"0">>],
    [tag |-> "U32", signed |-> FALSE,
     max |-> <<"4", "2", "9", "4", "9", "6", "7", "2", "9", "5">>,
     min |-> <<"0">>],
    [tag |-> "U64", signed |-> FALSE,
     max |-> <<"1", "8", "4", "4", "6", "7", "4", "4", "0", "7", "3", "7", "0", "9", "5", "5", "1", "6", "1", "5">>,
     min |-> <<"0">>],
    [tag |-> "U128", signed |-> FALSE,
     max |-> <<"3", "4", "0", "2", "8", "2", "3", "6", "6", "9", "2", "0", "9", "3", "8", "4", "6", "3", "4", "6", "3", "3", "7", "4", "6", "0", "7", "4", "3", "1", "7", "6", "8", "2", "1", "1", "4", "5", "5">>,
     min |-> <<"0">>],
    [tag |-> "I8", signed |-> TRUE,
     max |-> <<"1", "2", "7">>,
     min |-> <<"1", "2", "8">>],
    [tag |-> "I16", signed |-> TRUE,
     max |-> <<"3", "2", "7", "6", "7">>,
     min |-> <<"3", "2", "7", "6", "8">>],
    [tag |-> "I32", signed |-> TRUE,
     max |-> <<"2", "1", "4", "7", "4", "8", "3", "6", "4", "7">>,
     min |-> <<"2", "1", "4", "7", "4", "8", "3", "6", "4", "8">>],
    [tag |-> "I64", signed |-> TRUE,
     max |-> <<"9", "2", "2", "3", "3", "7", "2", "0", "3", "6", "8", "5", "4", "7", "7", "5", "8", "0", "7">>,
     min |-> <<"9", "2", "2", "3", "3", "7", "2", "0", "3", "6", "8", "5", "4", "7", "7", "5", "8", "0", "8">>],
    [tag |-> "I128", signed |-> TRUE,
     max |-> <<"1", "7", "0", "1", "4", "1", "1", "8", "3", "4", "6", "0", "4", "6", "9", "2", "3", "1", "7", "3", "1", "6", "8", "7", "3", "0", "3", "7", "1", "5", "8", "8", "4", "1", "0", "5", "7", "2", "7">>,
     min |-> <<"1", "7", "0", "1", "4", "1", "1", "8", "3", "4", "6", "0", "4", "6", "9", "2", "3", "1", "7", "3", "1", "6", "8", "7", "3", "0", "3", "7", "1", "5", "8", "8", "4", "1", "0", "5", "7", "2", "8">>] >>

\* magnitude a <= magnitude b, both without leading zeros
MagLeq(a, b) == Len(a) < Len(b) \/ (Len(a) = Len(b) /\ DigitsLeq(a, b))

\* value.parse::<ty>() is Ok: an optional `+` (or `-` for a signed type),
\* then digits whose value the type holds
ParsesAs(ty, value) ==
    LET neg == value # <<>> /\ Head(value) = "-"
        signed == value # <<>> /\ Head(value) \in {"+", "-"}
        digs == IF signed THEN Tail(value) ELSE value
        mag == StripZeros(digs)
    IN /\ digs # <<>> /\ IsDigits(digs)
       /\ neg => ty.signed
       /\ MagLeq(mag, IF neg THEN ty.min ELSE ty.max)

\* the pieces of str between the characters of set
RECURSIVE SplitOn(_, _)
SplitOn(str, set) ==
    LET k == IndexOfAny(str, set) IN
    IF k = 0 THEN <<str>>
    ELSE <<Take(str, k - 1)>> \o SplitOn(Drop(str, k), set)

\* `if let Ok(v) = part.parse::<f64>() { if v != 0.0 ...`: a part parses
\* to a number other than zero (NaN != 0.0 holds too)
NonZeroPart(part) ==
    LET f == ParseFloat(F64, part) IN f.ok /\ ~is_zero(f.v)

\* the float branch without the scan of the parts of a zero
SizedTablecell_float_from_no_scan(value) ==
    LET v_f32 == ParseFloat(F32, value)
        v_f64 == ParseFloat(F64, value)
    IN IF ~v_f32.ok THEN Cell("String", value)
       ELSE IF is_infinite(v_f32.v) THEN Cell("F64", v_f64.v)
       ELSE IF is_nan(v_f32.v) THEN Cell("F32", v_f32.v)
       ELSE IF Float_to_string(v_f32.v) = Float_to_string(v_f64.v)
            THEN Cell("F32", v_f32.v)
            ELSE Cell("F64", v_f64.v)

\* the last else-branch of Tablecell::auto_from (src/tablecell.rs)
SizedTablecell_float_from(value) ==
    LET v_f32 == ParseFloat(F32, value)
        v_f64 == ParseFloat(F64, value)
        same == Float_to_string(v_f32.v) = Float_to_string(v_f64.v)
        parts == SplitOn(value, {".", "e", "E"})
    IN IF ~v_f32.ok THEN Cell("String", value)
       ELSE IF is_infinite(v_f32.v) THEN Cell("F64", v_f64.v)
       ELSE IF is_nan(v_f32.v) THEN Cell("F32", v_f32.v)
       ELSE IF same /\ is_zero(v_f32.v)
            THEN (IF \E i \in 1..Len(parts) : NonZeroPart(parts[i])
                  THEN Cell("F64", v_f64.v)
                  ELSE Cell("F32", v_f32.v))
            ELSE IF same THEN Cell("F32", v_f32.v)
            ELSE Cell("F64", v_f64.v)

\* Tablecell::auto_from(value) of src/tablecell.rs
SizedTablecell_auto_from(value) ==
    LET fits == {n \in 1..Len(IntTypes) : ParsesAs(IntTypes[n], value)} IN
    IF fits # {}
    THEN LET n == CHOOSE k \in fits : \A j \in fits : k <= j
             neg == Head(value) = "-"
             digs == IF Head(value) \in {"+", "-"} THEN Tail(value) ELSE value
             mag == StripZeros(digs)
         IN Cell(IntTypes[n].tag, [neg |-> neg /\ mag # <<"0">>, mag |-> mag])
    ELSE SizedTablecell_float_from(value)

\* Tablecell::to_string of src/tablecell.rs
SizedTablecell_to_string(cell) ==
    CASE cell.tag = "String" -> cell.v
      [] cell.tag \in {"F32", "F64"} -> Float_to_string(cell.v)
      [] OTHER -> IBig_to_string(cell.v)

(***************************************************************************)
(* Inputs of the cell functions: the texts of the repository's tests and   *)
(* texts at the edges of the integer and the float grammar.                *)
(***************************************************************************)
CellTexts == {
    <<"1">>,                                                      \* 1
    <<"1", "0", "0", "0", "0", "0">>,                             \* 100000
    <<"1", "2", "3">>,                                           \* 123
    <<"-", "1", "2", "3">>,                                      \* -123
    <<"+", "5">>,                                                \* +5
    <<"0">>,                                                     \* 0
    <<"-", "0">>,                                                \* -0
    <<"0", "0", "7">>,                                           \* 007
    <<"0", "x", "1", "f">>,                                      \* 0x1f
    <<"0", "b", "1", "0", "1">>,                                 \* 0b101
    <<"0", "b", "1", "0", "2">>,                                 \* 0b102
    <<"1", "2", "3", "4", "5", "6", "7", "8", "9", "0", "1", "2", "3", "4", "5", "6", "7", "8", "9", "0", "1">>, \* 123456789012345678901
    <<"1", "2", "3", ".", "4", "5", "6">>,                       \* 123.456
    <<"1", "2", "3", ".", "4", "5", "6", "7", "8", "9", "0", "1", "2", "3", "4", "5", "6", "7", "8", "9", "0", "1", "2", "3", "4", "5", "6", "7", "8", "9">>, \* 123.45678901234567890123456789
    <<"1", ".", "0", "0">>,                                      \* 1.00
    <<"0", ".", "0", "0">>,                                      \* 0.00
    <<"1", "e", "5">>,                                           \* 1e5
    <<"1", "e", "4", "0", "0">>,                                 \* 1e400
    <<"-", "1", "e", "4", "0", "0">>,                            \* -1e400
    <<"1", "e", "-", "4", "0", "0">>,                            \* 1e-400
    <<"-", "1", "e", "-", "4", "0", "0">>,                       \* -1e-400
    <<"0", ".", "2", "e", "-", "4", "0", "0">>,                  \* 0.2e-400
    <<"0", ".", "2", "e", "-", "1", "0">>,                       \* 0.2e-10
    <<"1", "e", "3", "9">>,                                      \* 1e39
    <<"1", "e", "-", "5", "0">>,                                 \* 1e-50
    <<"i", "n", "f">>,                                           \* inf
    <<"-", "i", "n", "f">>,                                      \* -inf
    <<"N", "A", "N">>,                                           \* NAN
    <<"-", "N", "a", "N">>,                                      \* -NaN
    <<"I", "n", "f", "i", "n", "i", "t", "y">>,                  \* Infinity
    <<".", "5">>,                                                \* .5
    <<"1", ".">>,                                                \* 1.
    <<".">>,                                                     \* .
    <<"1", "e">>,                                                \* 1e
    <<>>,                                                        \* the empty text
    <<"a", "b", "c">>,                                           \* abc
    <<"H", "e", "l", "l", "o">>,                                 \* Hello
    <<"1", "0", "_", "0">>,                                      \* 10_0
    <<"1", "_", "0", "0", "0">>,                                 \* 1_000
    <<"1", "_", "2", ".", "5">>,                                 \* 1_2.5
    <<"1", "2", "a">> }                                          \* 12a

ForceTypes == {"S", "I", "F"}

\* the functions called with a text only
CellFunctions ==
    {"Tablecellcore::auto_from", "Tablecellcore::force_as_int",
     "Tablecellcore::force_as_float", "Tablecellcore::force_as_string",
     "Tablecell::auto_from", "Tablecell::force_as_int",
     "Tablecell::force_as_float", "Tablecell::force_as_string",
     "SizedTablecell::auto_from"}

CellCalls ==
    [fn : CellFunctions, value : CellTexts, force_type : {"-"}]
    \cup [fn : {"Tablecell::from_type"}, value : CellTexts, force_type : ForceTypes]

CellInit ==
    /\ NoValidator
    /\ pc = "call"
    /\ call \in CellCalls
    /\ ret = None
    /\ NoTable

\* the called function returns r
Returns(fn, r) ==
    /\ pc = "call" /\ call.fn = fn
    /\ ret' = r
    /\ pc' = "done"
    /\ UNCHANGED <<grammar, s, idx, location, result, lines, columns,
                   linecolumn, outcome, call, table, iter, frames>>

CoreAutoFrom ==
    Returns("Tablecellcore::auto_from", Value(Tablecellcore_auto_from(call.value)))

CoreForceAsInt ==
    Returns("Tablecellcore::force_as_int", Tablecellcore_force_as_int(call.value))

CoreForceAsFloat ==
    Returns("Tablecellcore::force_as_float", Tablecellcore_force_as_float(call.value))

CoreForceAsString ==
    Returns("Tablecellcore::force_as_string",
            Value(Tablecellcore_force_as_string(call.value)))

AutoFrom == Returns("Tablecell::auto_from", Tablecell_auto_from(call.value))

FromType ==
    Returns("Tablecell::from_type", Tablecell_from_type(call.value, call.force_type))

ForceAsInt == Returns("Tablecell::force_as_int", Tablecell_force_as_int(call.value))

ForceAsFloat ==
    Returns("Tablecell::force_as_float", Tablecell_force_as_float(call.value))

ForceAsString ==
    Returns("Tablecell::force_as_string", Tablecell_force_as_string(call.value))

SizedAutoFrom ==
    Returns("SizedTablecell::auto_from", Value(SizedTablecell_auto_from(call.value)))

CellNext ==
    \/ CoreAutoFrom
    \/ CoreForceAsInt
    \/ CoreForceAsFloat
    \/ CoreForceAsString
    \/ AutoFrom
    \/ FromType
    \/ ForceAsInt
    \/ ForceAsFloat
    \/ ForceAsString
    \/ SizedAutoFrom

CellSpec == CellInit /\ [][CellNext]_vars

\* the function fn has returned
Called(fn) == Done /\ call.fn = fn

\* the text parses as an arbitrary-precision integer / as an f64
IntegerParses(x) == IBig_from_str_with_radix_prefix(x).ok

FloatParses(x) == ParseFloat(F64, x).ok

(***************************************************************************)
(* C14: auto-inference yields exactly one tag in a fixed priority: Integer *)
(* whenever the integer parse succeeds, also when the text parses as a     *)
(* float too; otherwise Float whenever the float parse succeeds; otherwise *)
(* String holding the text unchanged.                                      *)
(***************************************************************************)
C14_AutoPriority ==
    Called("Tablecellcore::auto_from") =>
        LET x == call.value
            cell == ret.value
        IN /\ ret.kind = "Value"
           /\ cell.tag \in {"Int", "Float", "String"}
           /\ IntegerParses(x) => cell.tag = "Int"
           /\ (~IntegerParses(x) /\ FloatParses(x)) => cell.tag = "Float"
           /\ (~IntegerParses(x) /\ ~FloatParses(x)) => cell = Cell("String", x)
           /\ cell.tag = "Int" => Tablecellcore_force_as_int(x) = Ok(cell)
           /\ cell.tag = "Float" => Tablecellcore_force_as_float(x) = Ok(cell)

\* a text that parses both as an integer and as a float is an Integer
C14_Witness ==
    /\ Called("Tablecellcore::auto_from")
    /\ IntegerParses(call.value) /\ FloatParses(call.value)
    /\ ret.value.tag = "Int"

\* the strict conversion to the forced type, as from_type selects it
StrictConversion(value, force_type) ==
    IF force_type = "I" THEN Tablecellcore_force_as_int(value)
    ELSE Tablecellcore_force_as_float(value)

(***************************************************************************)
(* C15: a cell forced to Integer or Float whose text cannot be converted   *)
(* to the forced type is typed by auto-inference instead, and building the *)
(* cell never panics.                                                      *)
(***************************************************************************)
C15_ForcedCellFallsBack ==
    (Called("Tablecell::from_type") /\ call.force_type \in {"I", "F"}) =>
        /\ ret.kind # "Panic"
        /\ StrictConversion(call.value, call.force_type).kind = "Err" =>
               ret = Tablecell_auto_from(call.value)

(***************************************************************************)
(* C16: the advisory conversions Tablecell::force_as_int and               *)
(* Tablecell::force_as_float never fail: they return a cell of the         *)
(* requested tag when the text converts, otherwise exactly the cell of     *)
(* auto-inference for the same text; the colour is always Black.           *)
(***************************************************************************)
C16_AdvisoryNeverFails ==
    \A req \in {[fn |-> "Tablecell::force_as_int", tag |-> "Int", type |-> "I"],
                [fn |-> "Tablecell::force_as_float", tag |-> "Float", type |-> "F"]} :
        Called(req.fn) =>
            LET converts == IF req.type = "I" THEN IntegerParses(call.value)
                            ELSE FloatParses(call.value)
            IN /\ ret.kind = "Value"
               /\ ret.value.color = "Black"
               /\ converts => ret.value.core.tag = req.tag
               /\ ~converts => ret = Tablecell_auto_from(call.value)
               /\ (call.value = <<"a", "b", "c">>) =>
                      ret.value.core = Cell("String", <<"a", "b", "c">>)

\* forcing a float text to integer degrades to the Float cell of auto-inference
C16_Witness ==
    /\ Called("Tablecell::force_as_int")
    /\ ~IntegerParses(call.value)
    /\ ret.kind = "Value" /\ ret.value.core.tag = "Float"

(***************************************************************************)
(* C17: the strict conversions Tablecellcore::force_as_int and             *)
(* Tablecellcore::force_as_float return an error exactly when the text     *)
(* does not parse as the requested type; they never produce a String cell  *)
(* and never a cell of another type (123.456 as integer is an error).      *)
(***************************************************************************)
C17_StrictConversions ==
    \A req \in {[fn |-> "Tablecellcore::force_as_int", tag |-> "Int"],
                [fn |-> "Tablecellcore::force_as_float", tag |-> "Float"]} :
        Called(req.fn) =>
            LET parses == IF req.tag = "Int" THEN IntegerParses(call.value)
                          ELSE FloatParses(call.value)
            IN /\ ret.kind \in {"Ok", "Err"}
               /\ ret.kind = "Err" <=> ~parses
               /\ ret.kind = "Ok" => ret.value.tag = req.tag
               /\ (req.tag = "Int" /\ call.value = <<"1", "2", "3", ".", "4", "5", "6">>) =>
                      ret.kind = "Err"

\* a float text is refused by the strict integer conversion
C17_Witness ==
    /\ Called("Tablecellcore::force_as_int")
    /\ FloatParses(call.value)
    /\ ret.kind = "Err"

\* the cell re-inferred from the rendering of a cell
Reinferred(cell) == Tablecellcore_auto_from(Tablecellcore_to_string(cell))

\* a finite float whose value is an integer (1.00, 0.00, -0, 1e5)
Integral(v) == v.kind = "num" /\ v.exp >= Len(v.digs)

\* an Integer cell and a Float cell with the same rendering
SameRendering(int, float) ==
    /\ int.tag = "Int" /\ float.tag = "Float"
    /\ Tablecellcore_to_string(int) = Tablecellcore_to_string(float)

(***************************************************************************)
(* C18 as stated: the tag of a classified cell is stable under rendering,  *)
(* re-inferring to_string(auto_from(x)) gives the tag of auto_from(x), so  *)
(* an Integer cell and a Float cell never have the same rendering.         *)
(***************************************************************************)
C18_TagStable ==
    Called("Tablecellcore::auto_from") =>
        /\ Reinferred(ret.value).tag = ret.value.tag
        /\ \A y \in CellTexts :
               /\ ~SameRendering(Tablecellcore_auto_from(y), ret.value)
               /\ ~SameRendering(ret.value, Tablecellcore_auto_from(y))

(***************************************************************************)
(* C18 amended: the tag is stable under rendering unless the cell is a     *)
(* finite Float with an integral value, which renders without a decimal    *)
(* point and re-infers as Integer; an Integer cell and a Float cell have   *)
(* the same rendering only when the Float is finite and integral.          *)
(***************************************************************************)
C18_TagStableButIntegralFloat ==
    Called("Tablecellcore::auto_from") =>
        LET cell == ret.value
        IN /\ IF cell.tag = "Float" /\ Integral(cell.v)
              THEN /\ Reinferred(cell).tag = "Int"
                   /\ \A i \in 1..Len(Tablecellcore_to_string(cell)) :
                          Tablecellcore_to_string(cell)[i] # "."
              ELSE Reinferred(cell).tag = cell.tag
           /\ \A y \in CellTexts :
                  /\ SameRendering(Tablecellcore_auto_from(y), cell) => Integral(cell.v)
                  /\ SameRendering(cell, Tablecellcore_auto_from(y)) =>
                         Integral(Tablecellcore_auto_from(y).v)

\* 1.00 is a Float that renders as the text of the Integer 1
C18_Witness ==
    /\ Called("Tablecellcore::auto_from")
    /\ ret.value.tag = "Float" /\ Integral(ret.value.v)
    /\ Reinferred(ret.value).tag = "Int"
    /\ \E y \in CellTexts : SameRendering(Tablecellcore_auto_from(y), ret.value)

\* some sized integer type accepts the text
SizedIntegerParses(x) == \E n \in 1..Len(IntTypes) : ParsesAs(IntTypes[n], x)

\* the segments of the fragment split on '.', 'e', 'E'
Segments(x) == SplitOn(x, {".", "e", "E"})

(***************************************************************************)
(* C19: a fragment that reaches the float parse and parses as a float is   *)
(* stored narrow (F32) exactly when the renderings of its single- and      *)
(* double-precision values are identical, the value is not infinite and,   *)
(* if the value is zero, no segment of the fragment split on '.', 'e',     *)
(* 'E' parses to a non-zero number; an infinite value, a differing         *)
(* rendering or a zero with a non-zero segment is stored wide (F64); NaN   *)
(* is stored narrow.  A fragment that an integer type accepts is an        *)
(* integer cell and has no float representation.                           *)
(***************************************************************************)
C19_NarrowExactlyWhen ==
    (Called("SizedTablecell::auto_from") /\ ParseFloat(F32, call.value).ok) =>
        LET x == call.value
            cell == ret.value
            single == ParseFloat(F32, x).v
            double == ParseFloat(F64, x).v
            identical == Float_to_string(single) = Float_to_string(double)
            spurious == \E i \in 1..Len(Segments(x)) : NonZeroPart(Segments(x)[i])
            narrow == /\ identical
                      /\ ~is_infinite(double)
                      /\ is_zero(double) => ~spurious
        IN IF SizedIntegerParses(x) THEN cell.tag \notin {"F32", "F64", "String"}
           ELSE /\ cell.tag \in {"F32", "F64"}
                /\ cell.tag = "F32" <=> narrow
                /\ cell.tag = "F32" => cell.v = single
                /\ cell.tag = "F64" => cell.v = double
                /\ is_nan(double) => cell.tag = "F32"
                /\ is_infinite(double) => cell.tag = "F64"
                /\ (is_zero(double) /\ spurious) => cell.tag = "F64"
                /\ ~identical => cell.tag = "F64"

\* a zero whose text has a non-zero segment (1e-400) is stored wide
C19_Witness ==
    /\ Called("SizedTablecell::auto_from")
    /\ ParseFloat(F32, call.value).ok /\ ~SizedIntegerParses(call.value)
    /\ is_zero(ParseFloat(F64, call.value).v)
    /\ Float_to_string(ParseFloat(F32, call.value).v)
         = Float_to_string(ParseFloat(F64, call.value).v)
    /\ ret.value.tag = "F64"

\* the text is made of runs of digits separated by single underscores
RECURSIVE UnderscoreSeparated(_)
UnderscoreSeparated(x) ==
    LET k == IndexOfAny(x, {"_"}) IN
    IF k = 0 THEN FALSE
    ELSE /\ k > 1 /\ IsDigits(Take(x, k - 1))
         /\ LET rest == Drop(x, k) IN
            \/ (rest # <<>> /\ IsDigits(rest))
            \/ UnderscoreSeparated(rest)

(***************************************************************************)
(* C20: a fragment of digits separated by underscores (10_0) is accepted   *)
(* by neither the integer nor the float parse: auto-inference makes it a   *)
(* String with the text unchanged and both strict conversions return an    *)
(* error.                                                                  *)
(***************************************************************************)
C20_UnderscoresAreText ==
    (Done /\ UnderscoreSeparated(call.value)) =>
        /\ call.fn = "Tablecellcore::auto_from" =>
               ret = Value(Cell("String", call.value))
        /\ call.fn = "Tablecell::auto_from" =>
               ret.value.core = Cell("String", call.value)
        /\ call.fn = "SizedTablecell::auto_from" =>
               ret = Value(Cell("String", call.value))
        /\ call.fn \in {"Tablecellcore::force_as_int", "Tablecellcore::force_as_float"} =>
               ret.kind = "Err"

\* 10_0 has been classified
C20_Witness ==
    /\ Called("Tablecellcore::auto_from")
    /\ call.value = <<"1", "0", "_", "0">>
    /\ ret.value.tag = "String"

(***************************************************************************)
(* Tables.  A table is the sequence of its lines, a line the sequence of   *)
(* its cells (Tablecell records).  Vec indices start at 0: Vec index i is  *)
(* position i + 1 of the sequence.  Separator and line terminator are      *)
(* single characters.                                                      *)
(***************************************************************************)
\* the pieces that are kept by `.map(|cell| cell.trim()).filter(|cell| !cell.is_empty())`
TrimmedCells(pieces) ==
    SelectSeq([i \in 1..Len(pieces) |-> Trim(pieces[i])], LAMBDA cell : cell # <<>>)

\* Tableline::from_string(s, seperation)
Tableline_from_string(str, seperation) ==
    LET cells == TrimmedCells(SplitOn(Trim(str), {seperation}))
    IN [i \in 1..Len(cells) |-> Tablecell_auto_from(cells[i]).value]

\* Tableline::from_string_force(s, seperation)
Tableline_from_string_force(str, seperation) ==
    LET cells == TrimmedCells(SplitOn(Trim(str), {seperation}))
    IN [i \in 1..Len(cells) |-> Tablecell_force_as_string(cells[i]).value]

\* `if !end_line.contains("\n") { s = s.replace("\n", "") }`
RemoveNewlines(str, end_line) ==
    IF end_line = "\n" THEN str ELSE SelectSeq(str, LAMBDA c : c # "\n")

\* Table::from_string(s, seperation, end_line)
Table_from_string(str, seperation, end_line) ==
    LET pieces == SplitOn(RemoveNewlines(str, end_line), {end_line})
        all == [i \in 1..Len(pieces) |-> Tableline_from_string(pieces[i], seperation)]
    IN SelectSeq(all, LAMBDA line : Len(line) > 0)

\* Table::from_string_force(s, seperation, end_line)
Table_from_string_force(str, seperation, end_line) ==
    LET pieces == SplitOn(RemoveNewlines(str, end_line), {end_line})
    IN [i \in 1..Len(pieces) |-> Tableline_from_string_force(pieces[i], seperation)]

\* Tablecell::set_color
Tablecell_set_color(cell, color) == [cell EXCEPT !.color = color]

\* Table::set_color_line(index, color)
Table_set_color_line(t, index, color) ==
    IF index >= Len(t) THEN t
    ELSE [t EXCEPT ![index + 1] =
             [i \in 1..Len(t[index + 1]) |-> Tablecell_set_color(t[index + 1][i], color)]]

\* Table::set_color_column(index, color)
Table_set_color_column(t, index, color) ==
    [i \in 1..Len(t) |->
        IF index < Len(t[i])
        THEN [t[i] EXCEPT ![index + 1] = Tablecell_set_color(t[i][index + 1], color)]
        ELSE t[i]]

(***************************************************************************)
(* The colouring of main: the table read from the input is coloured by the *)
(* line entries of export_color, then by its column entries.               *)
(***************************************************************************)
ColorInputs == {
    <<"1", " ", "2", " ", "3", "\n", "4", " ", "5", " ", "6", "\n", "7", " ", "8", " ", "9">>,
    <<"1", " ", "2", "\n", "3", " ", "4">>,
    <<"a", " ", "b", " ", "c", "\n", "d", "\n", "e", " ", "f">>,
    <<"1", " ", "2", " ", "3", "\n", "4", " ", "5", " ", "6", "\n", "7", " ", "8", " ", "9", "\n", "1", "0", " ", "1", "1", " ", "1", "2">> }

\* export-color expressions that name both axes
ColorExpressions == {
    <<"0", "r", "l", ",", "0", "g", "c">>,
    <<"1", "r", "l", ",", "1", "g", "c">>,
    <<"1", "-", "2", "r", "l", ",", "0", "g", "c">>,
    <<"0", "r", "l", ",", "1", "-", "2", "g", "c">>,
    <<"1", "r", "l", ",", "0", "-", "1", "g", "c">>,
    <<"2", "y", "l", ",", "1", "r", "l", ",", "0", "g", "c">>,
    <<"1", "r", "l", ",", "2", "g", "c", ",", "1", "y", "c">>,
    <<"3", "r", "l", ",", "5", "g", "c">>,
    <<"0", "-", "1", "r", "l", ",", "1", "r", "c">> }

ColorInit ==
    /\ NoValidator
    /\ \E input \in ColorInputs : table = Table_from_string(input, " ", "\n")
    /\ \E e \in ColorExpressions :
          /\ Validate("color", e).kind = "Ok"
          /\ call = [fn |-> "main", expression |-> e,
                     export_color |-> Validate("color", e).value]
    /\ pc = "lines"
    /\ iter = 0
    /\ frames = <<>>
    /\ ret = None

\* one iteration of `for (line_num, color) in export_color.0.iter()`
SetColorLine ==
    /\ pc = "lines"
    /\ LET entry == call.export_color[1][iter + 1] IN
       table' = Table_set_color_line(table, entry[1], entry[2])
    /\ IF iter + 1 < Len(call.export_color[1])
       THEN iter' = iter + 1 /\ pc' = "lines"
       ELSE iter' = 0 /\ pc' = "columns"
    /\ UNCHANGED <<grammar, s, idx, location, result, lines, columns,
                   linecolumn, outcome, call, ret, frames>>

\* one iteration of `for (column_num, color) in export_color.1.iter()`
SetColorColumn ==
    /\ pc = "columns"
    /\ LET entry == call.export_color[2][iter + 1] IN
       table' = Table_set_color_column(table, entry[1], entry[2])
    /\ IF iter + 1 < Len(call.export_color[2])
       THEN iter' = iter + 1 /\ pc' = "columns"
       ELSE iter' = 0 /\ pc' = "done"
    /\ UNCHANGED <<grammar, s, idx, location, result, lines, columns,
                   linecolumn, outcome, call, ret, frames>>

ColorNext ==
    \/ SetColorLine
    \/ SetColorColumn

ColorSpec == ColorInit /\ [][ColorNext]_vars

\* all colours have been applied
Coloured == pc = "done" /\ call.fn = "main"

\* the entries <<index, colour>> of an axis of export_color
Entries(axis) == {call.export_color[axis][i] : i \in 1..Len(call.export_color[axis])}

(***************************************************************************)
(* C21: when export-color gives one colour to a line and a different       *)
(* colour to a column, the cell at their intersection has the line's       *)
(* colour after all colours have been applied.                             *)
(***************************************************************************)
C21_LineColourWins ==
    Coloured =>
        \A l \in Entries(1), c \in Entries(2) :
            (/\ l[2] # c[2]
             /\ l[1] < Len(table)
             /\ c[1] < Len(table[l[1] + 1])) =>
                table[l[1] + 1][c[1] + 1].color = l[2]

\* the positions (counted from 1) that a column entry may address under
\* either way of counting
ColumnPositions == UNION {{c[1], c[1] + 1} : c \in Entries(2)}

(***************************************************************************)
(* C22: selector indices count lines and columns from 1: colouring index   *)
(* k colours the k-th line of the table, so index 1 addresses the first    *)
(* line.  (Cells that a column entry may have recoloured are left out.)    *)
(***************************************************************************)
C22_IndicesCountFromOne ==
    Coloured =>
        \A l \in Entries(1) :
            (l[1] >= 1 /\ l[1] <= Len(table)) =>
                \A j \in 1..Len(table[l[1]]) :
                    j \notin ColumnPositions => table[l[1]][j].color = l[2]

(***************************************************************************)
(* The three validators on the same numeric part, each with a suffix that  *)
(* is well-formed in its grammar.                                          *)
(***************************************************************************)
NumericParts == {
    <<" ", "1", "-", "x">>,
    <<" ", "x", "-", "3">>,
    <<" ", "1", "-", "3">>,
    <<"1", "-", "x", "-", "3">>,
    <<"1", "-", "a", "-", "3">>,
    <<"1", "2", "-", "x", "-", "3", "4">>,
    <<"1", "-", "x", "-", "y", "-", "3">>,
    <<"1", "-", "-", "3">>,
    <<"1", "-", "2", "-", "3">>,
    <<"3", "-", " ", "-", "1">>,
    <<"x", "-", "3">>,
    <<"a", "-", "1", "2">>,
    <<"-", "3">>,
    <<"1", "-", "x">>,
    <<"1", "2", "-", "a">>,
    <<"1", "-">>,
    <<"x", "-", "y">>,
    <<"a", "-">>,
    <<"-">>,
    <<"x", "-", "1", "-", "y">>,
    <<"1", "-", "3">>,
    <<"3", "-", "1">>,
    <<"0", "-", "0">>,
    <<"1">>,
    <<"1", "2">>,
    <<"x">>,
    <<"1", "x">>,
    <<>> }

\* the grammar of each validator and two well-formed suffixes for it
Validators == {"validate_force_parse", "validate_export_subtable", "validate_export_color"}

GrammarOf(fn) ==
    CASE fn = "validate_force_parse" -> "force"
      [] fn = "validate_export_subtable" -> "subtable"
      [] fn = "validate_export_color" -> "color"

Suffix(fn, n) ==
    CASE fn = "validate_force_parse" -> <<<<"l", "i">>, <<"c", "f">>>>[n]
      [] fn = "validate_export_subtable" -> <<<<"l">>, <<"c">>>>[n]
      [] fn = "validate_export_color" -> <<<<"r", "l">>, <<"g", "c">>>>[n]

\* what the validator fn returns for the numeric part with its n-th suffix
ValidateNumeric(fn, numeric, n) == Validate(GrammarOf(fn), numeric \o Suffix(fn, n))

GrammarInit ==
    /\ NoValidator
    /\ NoTable
    /\ pc = "call"
    /\ call \in [fn : Validators, numeric : NumericParts, suffix : 1..2]
    /\ ret = None

\* the called validator returns
Validated(fn) ==
    /\ pc = "call" /\ call.fn = fn
    /\ ret' = ValidateNumeric(fn, call.numeric, call.suffix)
    /\ pc' = "done"
    /\ UNCHANGED <<grammar, s, idx, location, result, lines, columns,
                   linecolumn, outcome, call, table, iter, frames>>

ValidateForceParse == Validated("validate_force_parse")

ValidateExportSubtable == Validated("validate_export_subtable")

ValidateExportColor == Validated("validate_export_color")

GrammarNext ==
    \/ ValidateForceParse
    \/ ValidateExportSubtable
    \/ ValidateExportColor

GrammarSpec == GrammarInit /\ [][GrammarNext]_vars

\* the numeric part begins with white space
LeadingWhitespace(numeric) == numeric # <<>> /\ Head(numeric) \in Whitespace

RangeErrors == {"LeftSideError", "RightSideError", "BothSidesError"}

\* the call has returned a range error
RangeErrorReturned ==
    /\ Done /\ call.fn \in Validators
    /\ ret.kind = "Err" /\ ret.err.diag \in RangeErrors

\* the numeric part is digits, a dash, anything, a dash, digits: it has the
\* bad-left and the bad-right shape at once
BothShapes(numeric) ==
    \E i, j \in 1..Len(numeric) :
        /\ i < j
        /\ numeric[i] = "-" /\ numeric[j] = "-"
        /\ i > 1 /\ IsDigits(Take(numeric, i - 1))
        /\ j < Len(numeric) /\ IsDigits(Drop(numeric, j))

(***************************************************************************)
(* C23 as stated: for the same numeric part followed by a suffix that is   *)
(* well-formed in each grammar, the three validators report the same       *)
(* range-error category.                                                   *)
(***************************************************************************)
C23_SameCategory ==
    RangeErrorReturned =>
        \A fn \in Validators :
            LET other == ValidateNumeric(fn, call.numeric, call.suffix)
            IN other.kind = "Err" /\ other.err.diag = ret.err.diag

(***************************************************************************)
(* C23 amended: every validator reports the range-error category that      *)
(* comes first in its own pattern list.  For a numeric part that does not  *)
(* begin with white space (force-parse alone trims its tokens) the three   *)
(* agree unless the numeric part has the bad-left and the bad-right shape  *)
(* at once (1-x-3): then force-parse, which lists bad-right first, reports *)
(* RightSideError, and export-subtable and export-color, which list        *)
(* bad-left first, report LeftSideError.                                   *)
(***************************************************************************)
C23_SameCategoryButBothShapes ==
    (RangeErrorReturned /\ ~LeadingWhitespace(call.numeric)) =>
        \A fn \in Validators :
            LET other == ValidateNumeric(fn, call.numeric, call.suffix)
            IN /\ other.kind = "Err"
               /\ IF BothShapes(call.numeric)
                  THEN other.err.diag = IF fn = "validate_force_parse"
                                        THEN "RightSideError" ELSE "LeftSideError"
                  ELSE other.err.diag = ret.err.diag

\* 1-x-3 with an export-subtable suffix is a LeftSideError, with a
\* force-parse suffix a RightSideError
C23_Witness ==
    /\ RangeErrorReturned
    /\ call.fn = "validate_export_subtable"
    /\ call.numeric = <<"1", "-", "x", "-", "3">>
    /\ ret.err.diag = "LeftSideError"
    /\ ValidateNumeric("validate_force_parse", call.numeric, call.suffix).err.diag
         = "RightSideError"

\* well-formed range tokens whose start exceeds their end and whose numbers
\* fit usize
ReversedRanges(g) ==
    IF g = "subtable"
    THEN {<<"2", "-", "1", "l">>, <<"3", "-", "1", "c">>, <<"2", "3", "3", "-", "0", "l">>}
    ELSE {<<"2", "-", "1", "g", "l">>, <<"4", "-", "2", "y", "c">>,
          <<"2", "3", "3", "-", "0", "g", "l">>}

\* a well-formed range token whose start exceeds its end and usize::MAX
ReversedRangeTooLong(g) ==
    TooLong \o <<"-", "0">> \o (IF g = "subtable" THEN <<"l">> ELSE <<"r", "l">>)

\* an export-subtable or export-color call has returned Ok
ParsedSuccessfully ==
    Done /\ grammar \in {"subtable", "color"} /\ outcome.kind = "Ok"

(***************************************************************************)
(* C24: a well-formed range token whose start exceeds its end is never     *)
(* rejected: appending such a token to an export-subtable or export-color  *)
(* expression that parses successfully yields the identical result.        *)
(***************************************************************************)
C24_ReversedRangeNeutral ==
    ParsedSuccessfully =>
        \A r \in ReversedRanges(grammar) \cup {ReversedRangeTooLong(grammar)} :
            Validate(grammar, s \o <<",">> \o r) = outcome

\* C24 for the reversed ranges whose numbers fit usize
C24_ReversedRangeThatFits ==
    ParsedSuccessfully =>
        \A r \in ReversedRanges(grammar) :
            Validate(grammar, s \o <<",">> \o r) = outcome

\* the position of a piece in a message, 0 when the message lacks it
PositionIn(msg, piece) ==
    IF \E i \in 1..Len(msg) : msg[i] = piece
    THEN CHOOSE i \in 1..Len(msg) : msg[i] = piece
    ELSE 0

(***************************************************************************)
(* C25: a rendered message is assembled in a fixed order: the severity     *)
(* tag, the description, the attempt section if present, the hint section  *)
(* if present, the reason section if present; an absent part contributes   *)
(* nothing.                                                                *)
(***************************************************************************)
C25_MessageOrder ==
    (Done /\ call.fn = "message" /\ ret # <<>>) =>
        LET self == call.self
            attempt == PositionIn(ret, AttemptHeader)
            hint == PositionIn(ret, HintHeader)
            reason == PositionIn(ret, ReasonHeader)
            last == Len(ret)
        IN /\ ret[1] = ErrorLevel_to_string(self.level)
           /\ ret[2] = self.describe
           /\ attempt # 0 <=> self.attempt # None
           /\ hint # 0 <=> self.hint # None
           /\ reason # 0 <=> self.reason # None
           /\ attempt # 0 => attempt = 3 /\ ret[attempt + 1] = self.attempt[1]
           /\ hint # 0 => /\ hint = (IF attempt # 0 THEN attempt + 2 ELSE 3)
                          /\ ret[hint + 1] = self.hint[1]
           /\ reason # 0 => /\ reason = last - 1
                            /\ ret[last] = self.reason[1]
                            /\ hint # 0 => hint < reason
                            /\ attempt # 0 => attempt < reason
           /\ last = 2 + (IF attempt # 0 THEN 2 ELSE 0) + (IF hint # 0 THEN 3 ELSE 0)
                       + (IF reason # 0 THEN 2 ELSE 0)

\* a shown message with all three optional sections
C25_Witness ==
    /\ Done /\ call.fn = "message" /\ ret # <<>>
    /\ call.self.attempt # None /\ call.self.hint # None /\ call.self.reason # None
    /\ PositionIn(ret, AttemptHeader) < PositionIn(ret, HintHeader)
    /\ PositionIn(ret, HintHeader) < PositionIn(ret, ReasonHeader)

(***************************************************************************)
(* Ranges of lines: Table::remove_lines and Table::get_lines.  call.self   *)
(* is the table before the call, table the table after it.                 *)
(***************************************************************************)
\* the elements of seq at the Vec indices start..=end
Slice(seq, start, end) == SubSeq(seq, start + 1, end + 1)

\* seq without the elements at the Vec indices start..=end
Drained(seq, start, end) == Take(seq, start) \o Drop(seq, end + 1)

\* `start..=end` is a valid range of a Vec: Vec::drain and slice indexing
\* panic when the start is behind the end of the range, end + 1
ValidRange(start, end) == start <= end + 1

\* Table::remove_lines(start, end): the result and the table afterwards
Table_remove_lines(t, start, end) ==
    IF start >= Len(t) \/ end >= Len(t)
    THEN [result |-> Err("Index out of range"), table |-> t]
    ELSE IF ~ValidRange(start, end) THEN [result |-> Panic, table |-> t]
    ELSE [result |-> Ok(<<>>), table |-> Drained(t, start, end)]

\* Table::get_lines(start, end)
Table_get_lines(t, start, end) ==
    IF start >= Len(t) \/ end >= Len(t) THEN Value(None)
    ELSE IF ~ValidRange(start, end) THEN Panic
    ELSE Value(Some(Slice(t, start, end)))

LinesInit ==
    /\ NoValidator
    /\ \E input \in ColorInputs : table = Table_from_string(input, " ", "\n")
    /\ iter = 0
    /\ frames = <<>>
    /\ pc = "call"
    /\ call \in [fn : {"Table::remove_lines", "Table::get_lines"}, self : {table},
                 start : 0..MaxIndex, end : 0..MaxIndex]
    /\ ret = None

RemoveLines ==
    /\ pc = "call" /\ call.fn = "Table::remove_lines"
    /\ LET r == Table_remove_lines(table, call.start, call.end) IN
       ret' = r.result /\ table' = r.table
    /\ pc' = "done"
    /\ UNCHANGED <<grammar, s, idx, location, result, lines, columns,
                   linecolumn, outcome, call, iter, frames>>

GetLines ==
    /\ pc = "call" /\ call.fn = "Table::get_lines"
    /\ ret' = Table_get_lines(table, call.start, call.end)
    /\ pc' = "done"
    /\ UNCHANGED <<grammar, s, idx, location, result, lines, columns,
                   linecolumn, outcome, call, table, iter, frames>>

LinesNext ==
    \/ RemoveLines
    \/ GetLines

LinesSpec == LinesInit /\ [][LinesNext]_vars

\* the lines of t whose Vec index is outside start..=end, in order
Without(t, start, end) ==
    LET kept == {i \in 1..Len(t) : i - 1 < start \/ i - 1 > end}
        nth(n) == CHOOSE i \in kept : Cardinality({j \in kept : j < i}) = n - 1
    IN [n \in 1..Cardinality(kept) |-> t[nth(n)]]

(***************************************************************************)
(* C26: for any table, start and end, Table::remove_lines either returns   *)
(* Ok after removing exactly the lines start..=end, all others kept in     *)
(* order, or returns Err and leaves the table unchanged; it never panics,  *)
(* also when start is greater than end; Table::get_lines likewise returns  *)
(* Some slice or None without panicking.                                   *)
(***************************************************************************)
C26_RangesNeverPanic ==
    /\ Called("Table::remove_lines") =>
          \/ ret.kind = "Ok" /\ table = Without(call.self, call.start, call.end)
          \/ ret.kind = "Err" /\ table = call.self
    /\ Called("Table::get_lines") =>
          /\ ret.kind = "Value"
          /\ ret.value # None =>
                 ret.value[1] = Slice(call.self, call.start, call.end)

(***************************************************************************)
(* Configuration files (src/src/setting.rs).  A configuration is the TOML  *)
(* table found under one name of one file; a key that is absent is None.   *)
(***************************************************************************)
\* `panic!(msg)` / `.expect(msg)`: a panic that carries its message
PanicWith(msg) == [kind |-> "Panic", value |-> <<>>, err |-> msg]

\* impl Default for Args
Args_default ==
    [input |-> None, seperation |-> " ", end_line |-> "\n", parse_mode |-> "A",
     force_parse |-> None,
     output_settings |-> [output |-> None, export_color |-> None],
     export_subtable |-> None, config |-> None, config_name |-> None,
     dry |-> None]

\* a configuration table without any key
EmptyConf ==
    [input |-> None, seperation |-> None, end_line |-> None, is_auto |-> None,
     force_parse |-> None, export_path |-> None, export_color |-> None,
     export_subtable |-> None, configuration |-> None]

\* `for j in start..=end { v.push((j, t)) }` over the entries [start, end, t]
RECURSIVE ExpandTagged(_)
ExpandTagged(entries) ==
    IF entries = <<>> THEN <<>>
    ELSE LET e == Head(entries) IN
         [i \in 1..(e[2] - e[1] + 1) |-> <<e[1] + i - 1, e[3]>>]
             \o ExpandTagged(Tail(entries))

\* `for i in start..=end { v.push(i) }` over the entries [start, end]
RECURSIVE ExpandPlain(_)
ExpandPlain(entries) ==
    IF entries = <<>> THEN <<>>
    ELSE LET e == Head(entries) IN
         RangeInclusive(e[1], e[2]) \o ExpandPlain(Tail(entries))

\* the force types a configuration may name: "s" | "u" | "i" | "f"
TomlForceTypes == {"s", "u", "i", "f"}

\* the colours a configuration may name: "r" | "g" | "b" | "y" | "x" | "w"
TomlColors == {"r", "g", "b", "y", "x", "w"}

\* `match t { "s" => ForceType::S, ... }`
TomlForceType(t) ==
    CASE t = "s" -> "S" [] t = "u" -> "U" [] t = "i" -> "I" [] t = "f" -> "F"

\* `match c { "r" => OutputColor::Red, ... }`
TomlColor(c) ==
    CASE c = "r" -> "Red" [] c = "g" -> "Green" [] c = "b" -> "Blue"
      [] c = "y" -> "Yellow" [] c = "x" -> "Grey" [] c = "w" -> "White"

\* the entries with their third element mapped
Tagged(entries, Map(_)) ==
    [i \in 1..Len(entries) |-> <<entries[i][1], Map(entries[i][2])>>]

\* the third elements of the entries
Tags(entries) == {entries[i][3] : i \in 1..Len(entries)}

\* `v.split('.').last()` matched against the known suffixes
OutputFormatOf(path) ==
    LET pieces == SplitOn(path, {"."})
        suffix == pieces[Len(pieces)]
    IN CASE suffix = <<"c", "s", "v">> -> Some("Csv")
         [] suffix = <<"t", "x", "t">> -> Some("Txt")
         [] suffix \in {<<"x", "l", "s", "x">>, <<"x", "l", "s">>} -> Some("Exls")
         [] OTHER -> None

\* the array of an optional key, empty when the key is absent
ArrayOr(opt) == IF opt = None THEN <<>> ELSE opt[1]

\* Args::from_toml, the part that reads one configuration table into
\* now_args: Ok(now_args), or the panic of the first key that is rejected
Args_parse(conf) ==
    LET force == conf.force_parse
        color == conf.export_color
        export == conf.export_subtable
        l == force # None /\ force[1].line # None
        c == force # None /\ force[1].column # None
        force_array == IF l THEN force[1].line[1] ELSE force[1].column[1]
        export_line == IF export = None THEN None ELSE export[1].line
        export_column == IF export = None THEN None ELSE export[1].column
    IN
    IF force # None /\ l /\ c
    THEN PanicWith("Can't set force parse for both line and column")
    ELSE IF force # None /\ ~l /\ ~c THEN PanicWith("Invalid force parse")
    ELSE IF force # None /\ ~(Tags(force_array) \subseteq TomlForceTypes)
    THEN PanicWith("Invalid force parse")
    ELSE IF conf.export_path # None /\ OutputFormatOf(conf.export_path[1]) = None
    THEN PanicWith("Invalid output path")
    ELSE IF color # None /\ ~(Tags(ArrayOr(color[1].line)) \subseteq TomlColors)
    THEN PanicWith("Invalid export color line")
    ELSE IF color # None /\ ~(Tags(ArrayOr(color[1].column)) \subseteq TomlColors)
    THEN PanicWith("Invalid export color column")
    ELSE Ok(
        [input |-> conf.input,
         seperation |-> IF conf.seperation = None THEN " " ELSE conf.seperation[1],
         end_line |-> IF conf.end_line = None THEN "\n" ELSE conf.end_line[1],
         parse_mode |-> IF conf.is_auto = None \/ conf.is_auto[1] THEN "A" ELSE "S",
         force_parse |->
             IF force = None THEN None
             ELSE Some(<<Tagged(ExpandTagged(force_array), TomlForceType),
                         IF l THEN "Line" ELSE "Column">>),
         output_settings |->
             [output |->
                  IF conf.export_path = None THEN None
                  ELSE Some(<<conf.export_path[1],
                              OutputFormatOf(conf.export_path[1])[1]>>),
              export_color |->
                  IF color = None THEN None
                  ELSE Some(<<Tagged(ExpandTagged(ArrayOr(color[1].line)), TomlColor),
                              Tagged(ExpandTagged(ArrayOr(color[1].column)), TomlColor)>>)],
         export_subtable |->
             IF export_line = None /\ export_column = None THEN None
             ELSE Some(<<ExpandPlain(ArrayOr(export_line)),
                         ExpandPlain(ArrayOr(export_column))>>),
         config |-> IF conf.configuration = None THEN None
                    ELSE Some(conf.configuration[1][1]),
         config_name |-> IF conf.configuration = None THEN None
                         ELSE Some(conf.configuration[1][2]),
         dry |-> None])

\* Args::from_toml, the part that fills the fields now_args left at their
\* default from pre_settings; config and config_name stay those of now_args
Args_merge(now_args, pre_settings) ==
    LET Pick(field) == IF now_args[field] = Args_default[field]
                       THEN pre_settings[field] ELSE now_args[field]
        PickOutput(field) ==
            IF now_args.output_settings[field] = Args_default.output_settings[field]
            THEN pre_settings.output_settings[field]
            ELSE now_args.output_settings[field]
    IN [input |-> Pick("input"), seperation |-> Pick("seperation"),
        end_line |-> Pick("end_line"), parse_mode |-> Pick("parse_mode"),
        force_parse |-> Pick("force_parse"),
        output_settings |-> [output |-> PickOutput("output"),
                             export_color |-> PickOutput("export_color")],
        export_subtable |-> Pick("export_subtable"),
        config |-> now_args.config, config_name |-> now_args.config_name,
        dry |-> Pick("dry")]

(***************************************************************************)
(* The recursion of Args::from_toml over the `configuration` includes.     *)
(* frames is the call stack: one frame per active call of from_toml, the   *)
(* innermost last.  call.fs is the content of the files: the configuration *)
(* table of every (file, name) that exists.                                *)
(***************************************************************************)
\* the files that can be read; "." is the current directory, which
\* std::fs::read refuses
ConfigFiles == {"a.toml", "b.toml"}

ConfigPaths == ConfigFiles \cup {"."}

ConfigNames == {"x", "y"}

\* the configurations that exist: b.toml has no table named y
ConfigKeys == {<<"a.toml", "x">>, <<"a.toml", "y">>, <<"b.toml", "x">>}

\* the keys each configuration sets besides `configuration`
ConfigSettings(key) ==
    CASE key = <<"a.toml", "x">> ->
           [EmptyConf EXCEPT !.input = Some("ax.txt")]
      [] key = <<"a.toml", "y">> ->
           [EmptyConf EXCEPT !.seperation = Some(","), !.is_auto = Some(FALSE)]
      [] key = <<"b.toml", "x">> ->
           [EmptyConf EXCEPT !.input = Some("bx.txt"), !.seperation = Some(";"),
                             !.export_path = Some(<<"o", ".", "c", "s", "v">>)]

\* what a `configuration` key may hold
ConfigIncludes == {None} \cup {Some(<<p, n>>) : p \in ConfigPaths, n \in ConfigNames}

\* the file contents: every configuration with any include
ConfigFileSystems ==
    {[key \in ConfigKeys |-> [ConfigSettings(key) EXCEPT !.configuration = inc[key]]] :
        inc \in [ConfigKeys -> ConfigIncludes]}

\* a call of from_toml that has not run yet
Frame(file, name, unique) ==
    [file |-> file, name |-> name, unique |-> unique, at |-> "enter",
     now_args |-> Args_default]

ConfigInit ==
    /\ NoValidator
    /\ table = <<>> /\ iter = 0
    /\ pc = "call"
    /\ call \in [fn : {"Args::from_toml"}, file : ConfigFiles, name : ConfigNames,
                 fs : ConfigFileSystems]
    /\ frames = <<Frame(call.file, call.name, None)>>
    /\ ret = None

\* a panic unwinds every frame
Unwind(msg) == ret' = PanicWith(msg) /\ frames' = <<>> /\ pc' = "done"

Top == frames[Len(frames)]

\* the innermost call from its entry to the construction of now_args:
\* the loop test, the file and the table are read, the keys are parsed
Enter ==
    /\ pc = "call" /\ frames # <<>> /\ Top.at = "enter"
    /\ LET key == <<Top.file, Top.name>>
           unique == IF Top.unique = None THEN {} ELSE Top.unique[1]
       IN
       IF Top.unique # None /\ key \in Top.unique[1]
       THEN Unwind("Configuration file loop")
       ELSE IF Top.file \notin ConfigFiles
       THEN \* `std::fs::read(file)?` returns Err; the caller unwraps it
            IF Len(frames) > 1
            THEN Unwind("called Result::unwrap() on an Err value")
            ELSE ret' = Err("io::Error") /\ frames' = <<>> /\ pc' = "done"
       ELSE IF key \notin DOMAIN call.fs
       THEN Unwind("No such configuration in the toml file")
       ELSE LET r == Args_parse(call.fs[key]) IN
            IF r.kind = "Panic" THEN Unwind(r.err)
            ELSE /\ frames' = [frames EXCEPT ![Len(frames)] =
                        [@ EXCEPT !.unique = Some(unique \cup {key}),
                                  !.at = "parsed", !.now_args = r.value]]
                 /\ UNCHANGED <<ret, pc>>
    /\ UNCHANGED <<grammar, s, idx, location, result, lines, columns,
                   linecolumn, outcome, call, table, iter>>

\* `Self::from_toml(config, config_name, unique.clone())`
Include ==
    /\ pc = "call" /\ frames # <<>> /\ Top.at = "parsed"
    /\ Top.now_args.config # None /\ Top.now_args.config_name # None
    /\ frames' = Append([frames EXCEPT ![Len(frames)].at = "waiting"],
                        Frame(Top.now_args.config[1], Top.now_args.config_name[1],
                              Top.unique))
    /\ UNCHANGED <<grammar, s, idx, location, result, lines, columns,
                   linecolumn, outcome, pc, call, ret, table, iter>>

\* `return Ok(now_args)`: the outermost call hands now_args to its caller,
\* an inner call hands it to the frame below, which merges it as pre_settings
ReturnArgs ==
    /\ pc = "call" /\ frames # <<>>
    /\ \/ Top.at = "merged"
       \/ Top.at = "parsed" /\ Top.now_args.config = None
    /\ IF Len(frames) = 1
       THEN ret' = Ok(Top.now_args) /\ frames' = <<>> /\ pc' = "done"
       ELSE /\ frames' = [SubSeq(frames, 1, Len(frames) - 1)
                              EXCEPT ![Len(frames) - 1] =
                                  [@ EXCEPT !.at = "merged",
                                            !.now_args = Args_merge(@, Top.now_args)]]
            /\ UNCHANGED <<ret, pc>>
    /\ UNCHANGED <<grammar, s, idx, location, result, lines, columns,
                   linecolumn, outcome, call, table, iter>>

ConfigNext ==
    \/ Enter
    \/ Include
    \/ ReturnArgs

ConfigSpec == ConfigInit /\ [][ConfigNext]_vars

\* the calls run to their end: a step that is enabled is taken
FairConfigSpec == ConfigSpec /\ WF_vars(ConfigNext)

\* the file a `configuration` path names when it is written in `file`:
\* "." is the file itself
ResolvedPath(path, file) == IF path = "." THEN file ELSE path

\* the chain of includes from (file, name) as the configuration files
\* describe it, followed for at most n steps
RECURSIVE IncludeChain(_, _, _)
IncludeChain(fs, key, n) ==
    IF n = 0 \/ key \notin DOMAIN fs THEN <<key>>
    ELSE LET inc == fs[key].configuration IN
         IF inc = None THEN <<key>>
         ELSE <<key>> \o IncludeChain(fs, <<ResolvedPath(inc[1][1], key[1]), inc[1][2]>>, n - 1)

\* the chain of the call
Chain == IncludeChain(call.fs, <<call.file, call.name>>, Cardinality(ConfigKeys))

\* the chain names existing configurations only, none of them twice, and
\* ends at one without a `configuration` key
ChainWithoutRepetition ==
    /\ \A i \in 1..Len(Chain) : Chain[i] \in DOMAIN call.fs
    /\ \A i, j \in 1..Len(Chain) : i # j => Chain[i] # Chain[j]
    /\ call.fs[Chain[Len(Chain)]].configuration = None

\* the settings of a chain: each configuration before the ones it includes
RECURSIVE LoadedChain(_, _)
LoadedChain(fs, chain) ==
    IF Len(chain) = 1 THEN Args_parse(fs[chain[1]]).value
    ELSE Args_merge(Args_parse(fs[chain[1]]).value, LoadedChain(fs, Tail(chain)))

\* C27 (as stated): every call of Args::from_toml ends; a chain that comes
\* back to a (file, name) it already visited ends with the panic
\* 'Configuration file loop', and a chain without repetition ends with all
\* its configurations loaded.
C27_ChainLoaded ==
    Called("Args::from_toml") =>
        /\ ~ChainWithoutRepetition /\ Chain[Len(Chain)] \in DOMAIN call.fs
               /\ (\A i \in 1..Len(Chain) : Chain[i] \in DOMAIN call.fs)
             => ret = PanicWith("Configuration file loop")
        /\ ChainWithoutRepetition => ret = Ok(LoadedChain(call.fs, Chain))

\* C27, the part about the recursion: the calls on the stack are for
\* pairwise different (file, name), so the stack never grows beyond the
\* number of (path, name) a configuration can name, and the only way a
\* pair comes up again is the panic 'Configuration file loop'.
C27_NoPairTwice ==
    /\ \A i, j \in 1..Len(frames) :
           i < j => <<frames[i].file, frames[i].name>> # <<frames[j].file, frames[j].name>>
                    \/ frames[j].at = "enter"
    /\ Len(frames) <= Cardinality(ConfigPaths \X ConfigNames) + 1

\* C27, termination: every call of Args::from_toml returns or panics.
C27_Terminates == <>(pc = "done")

\* C27, the chains written without ".": they are loaded completely.
C27_PlainChainLoaded ==
    Called("Args::from_toml")
        /\ ChainWithoutRepetition
        /\ (\A key \in ConfigKeys : call.fs[key].configuration # None
                => call.fs[key].configuration[1][1] # ".")
    => ret = Ok(LoadedChain(call.fs, Chain))

(***************************************************************************)
(* Args::to_toml and the round trip of the create_tests: a configuration   *)
(* is read, written to a file under the name "my_config" and read back.    *)
(***************************************************************************)
\* `match t { ForceType::S => 's', ... }`
ForceTypeLetter(t) ==
    CASE t = "S" -> "s" [] t = "U" -> "u" [] t = "I" -> "i" [] t = "F" -> "f"

\* `match c { OutputColor::Black => 'b', ... }`
ColorLetter(c) ==
    CASE c = "Black" -> "b" [] c = "Red" -> "r" [] c = "Green" -> "g"
      [] c = "Blue" -> "b" [] c = "Yellow" -> "y" [] c = "Grey" -> "x"
      [] c = "White" -> "w"

\* one array [i, i, letter] per entry
SingleTagged(entries, Letter(_)) ==
    [k \in 1..Len(entries) |-> <<entries[k][1], entries[k][1], Letter(entries[k][2])>>]

\* one array [i, i] per index
SinglePlain(indices) == [k \in 1..Len(indices) |-> <<indices[k], indices[k]>>]

\* the key of an array that is written only when it is not empty
NonEmpty(array) == IF array = <<>> THEN None ELSE Some(array)

\* the table {line, column} that is written only when one of them is
LineColumnTable(line, column) ==
    IF line = <<>> /\ column = <<>> THEN None
    ELSE Some([line |-> NonEmpty(line), column |-> NonEmpty(column)])

\* Args::to_toml: the table written under "my_config", or the panic of
\* `self.input.as_ref().unwrap()`
Args_to_toml(self) ==
    IF self.input = None THEN PanicWith("called Option::unwrap() on a None value")
    ELSE Ok(
        [input |-> Some(self.input[1]),
         seperation |-> Some(self.seperation),
         end_line |-> IF self.end_line # "\n" THEN Some(self.end_line) ELSE None,
         is_auto |-> Some(self.parse_mode = "A"),
         export_subtable |->
             IF self.export_subtable = None THEN None
             ELSE LineColumnTable(SinglePlain(self.export_subtable[1][1]),
                                  SinglePlain(self.export_subtable[1][2])),
         force_parse |->
             IF self.force_parse = None THEN None
             ELSE LET entries == SingleTagged(self.force_parse[1][1], ForceTypeLetter)
                  IN IF self.force_parse[1][2] = "Line"
                     THEN LineColumnTable(entries, <<>>)
                     ELSE LineColumnTable(<<>>, entries),
         export_path |->
             IF self.output_settings.output = None THEN None
             ELSE Some(self.output_settings.output[1][1]),
         export_color |->
             IF self.output_settings.export_color = None THEN None
             ELSE LineColumnTable(
                      SingleTagged(self.output_settings.export_color[1][1], ColorLetter),
                      SingleTagged(self.output_settings.export_color[1][2], ColorLetter)),
         configuration |->
             IF self.config = None THEN None
             ELSE Some(<<self.config[1], self.config_name[1]>>)])

\* the tables {line, column} of the configurations that are read
ForceParseTables == {
    [line |-> Some(<< <<1, 2, "i">> >>), column |-> None],
    [line |-> None, column |-> Some(<< <<0, 0, "s">>, <<2, 2, "f">> >>)],
    [line |-> Some(<<>>), column |-> None],
    [line |-> Some(<< <<1, 1, "u">> >>), column |-> Some(<< <<1, 1, "u">> >>)] }

ExportColorTables == {
    [line |-> Some(<< <<1, 1, "r">> >>), column |-> None],
    [line |-> Some(<< <<0, 1, "b">> >>), column |-> Some(<< <<2, 2, "g">> >>)],
    [line |-> None, column |-> None] }

ExportSubtableTables == {
    [line |-> Some(<< <<1, 3>> >>), column |-> None],
    [line |-> Some(<< <<1, 1>> >>), column |-> Some(<< <<0, 1>> >>)],
    [line |-> Some(<<>>), column |-> None] }

ExportPaths == {<<"o", ".", "c", "s", "v">>, <<"o", ".", "m", "d">>}

Optional(S) == {None} \cup {Some(x) : x \in S}

\* the configurations that are read first
TomlConfs ==
    [input : Optional({"in.txt"}), seperation : Optional({","}),
     end_line : Optional({";"}), is_auto : Optional(BOOLEAN),
     force_parse : Optional(ForceParseTables), export_path : Optional(ExportPaths),
     export_color : Optional(ExportColorTables),
     export_subtable : Optional(ExportSubtableTables), configuration : {None}]

TomlInit ==
    /\ NoValidator
    /\ NoTable
    /\ pc = "call"
    /\ call \in [fn : {"Args::to_toml"}, conf : TomlConfs]
    /\ ret = None

\* `let test = Args::from_toml(file, name, None).unwrap()`
ReadToml ==
    /\ pc = "call" /\ call.fn = "Args::to_toml"
    /\ ret' = Args_parse(call.conf)
    /\ pc' = IF ret'.kind = "Ok" THEN "read" ELSE "done"
    /\ UNCHANGED <<grammar, s, idx, location, result, lines, columns,
                   linecolumn, outcome, call, table, iter, frames>>

\* `test.to_toml(created).unwrap()`: table is the file that is created
WriteToml ==
    /\ pc = "read"
    /\ LET r == Args_to_toml(ret.value) IN
       IF r.kind = "Ok"
       THEN table' = <<r.value>> /\ pc' = "written" /\ ret' = ret
       ELSE table' = table /\ pc' = "done" /\ ret' = r
    /\ UNCHANGED <<grammar, s, idx, location, result, lines, columns,
                   linecolumn, outcome, call, iter, frames>>

\* `let _test = Args::from_toml(created, "my_config", None).unwrap()`
ReadBack ==
    /\ pc = "written"
    /\ ret' = Args_parse(table[1])
    /\ pc' = "done"
    /\ UNCHANGED <<grammar, s, idx, location, result, lines, columns,
                   linecolumn, outcome, call, table, iter, frames>>

TomlNext ==
    \/ ReadToml
    \/ WriteToml
    \/ ReadBack

TomlSpec == TomlInit /\ [][TomlNext]_vars

\* the settings read first
FirstRead == Args_parse(call.conf)

\* C28 (as stated): for every Args value a that from_toml returns,
\* a.to_toml(file) succeeds and from_toml(file, "my_config") returns a.
C28_RoundTrip ==
    Called("Args::to_toml") /\ FirstRead.kind = "Ok" => ret = FirstRead

\* C28, the settings that do survive: an input is set, and no table of
\* the configuration is there without an entry.
C28_RoundTripOfFilledSettings ==
    (/\ Called("Args::to_toml") /\ FirstRead.kind = "Ok"
     /\ FirstRead.value.input # None
     /\ FirstRead.value.force_parse \notin {Some(<< <<>>, "Line">>), Some(<< <<>>, "Column">>)}
     /\ FirstRead.value.export_subtable # Some(<< <<>>, <<>> >>)
     /\ FirstRead.value.output_settings.export_color # Some(<< <<>>, <<>> >>))
    => ret = FirstRead

(***************************************************************************)
(* Building a table from a text and rendering it (core/src/table.rs,       *)
(* src/tableline.rs).  The escape codes of the colours and of the grey     *)
(* bars are left out of the rendered text.                                 *)
(***************************************************************************)
\* the length of the longest text a table is built from
MaxText == 4

\* Tablecell::len
Tablecell_len(cell) == Len(Tablecellcore_to_string(cell.core))

\* Table::get_longest_row
Table_get_longest_row(t) ==
    IF t = <<>> THEN 0
    ELSE CHOOSE n \in {Len(t[i]) : i \in 1..Len(t)} :
             \A i \in 1..Len(t) : Len(t[i]) <= n

\* the width of the widest cell of column col (from 0), 0 without any
ColumnWidth(t, col) ==
    LET lens == {IF col < Len(t[i]) THEN Tablecell_len(t[i][col + 1]) ELSE 0 :
                    i \in 1..Len(t)}
    IN IF lens = {} THEN 0 ELSE CHOOSE n \in lens : \A m \in lens : m <= n

\* `" ".repeat(n)`
Spaces(n) == [i \in 1..n |-> " "]

\* the cells of a line from cell k on, each padded to its width and
\* followed by a bar
RECURSIVE PaddedCells(_, _, _)
PaddedCells(line, widths, k) ==
    IF k > Len(widths) THEN <<>>
    ELSE (IF k <= Len(line)
          THEN Tablecellcore_to_string(line[k].core)
                   \o Spaces(widths[k] - Tablecell_len(line[k]))
          ELSE Spaces(widths[k]))
         \o <<" ", "|", " ">> \o PaddedCells(line, widths, k + 1)

\* Tableline::to_string_display
Tableline_to_string_display(line, widths) ==
    IF Len(line) = 0 THEN Err("Empty line")
    ELSE IF \E i \in 1..Len(line) : widths[i] < Tablecell_len(line[i])
    THEN Err("Width too small")
    ELSE Ok(<<"|", " ">> \o PaddedCells(line, widths, 1))

\* the lines of a table from line k on, each rendered and ended by "\n"
RECURSIVE DisplayedLines(_, _, _)
DisplayedLines(t, widths, k) ==
    IF k > Len(t) THEN <<>>
    ELSE Tableline_to_string_display(t[k], widths).value \o <<"\n">>
             \o DisplayedLines(t, widths, k + 1)

\* impl Display for Table: the text, or the panic of
\* `line.to_string_display(&widths).unwrap()`
Table_fmt(t) ==
    LET width == Table_get_longest_row(t)
        widths == [col \in 1..width |-> ColumnWidth(t, col - 1)]
        failed == {k \in 1..Len(t) : Tableline_to_string_display(t[k], widths).kind = "Err"}
    IN IF failed # {}
       THEN PanicWith(Tableline_to_string_display(
                          t[CHOOSE k \in failed : \A j \in failed : k <= j], widths).err)
       ELSE Ok(DisplayedLines(t, widths, 1))

\* every text of at most n characters out of "a", " " and "\n"
RECURSIVE TextsUpTo(_)
TextsUpTo(n) ==
    IF n = 0 THEN {<<>>}
    ELSE LET shorter == TextsUpTo(n - 1) IN
         shorter \cup {Append(t, c) : t \in shorter, c \in {"a", " ", "\n"}}

TableBuilders == {"Table::from_string", "Table::from_string_force"}

BuildInit ==
    /\ NoValidator
    /\ NoTable
    /\ pc = "call"
    /\ call \in [fn : TableBuilders, s : TextsUpTo(MaxText),
                 seperation : {" "}, end_line : {"\n"}]
    /\ ret = None

\* `Table::from_string(s, seperation, end_line)`
FromString ==
    /\ pc = "call" /\ call.fn = "Table::from_string"
    /\ table' = Table_from_string(call.s, call.seperation, call.end_line)
    /\ pc' = "built"
    /\ UNCHANGED <<grammar, s, idx, location, result, lines, columns,
                   linecolumn, outcome, call, ret, iter, frames>>

\* `Table::from_string_force(s, seperation, end_line)`
FromStringForce ==
    /\ pc = "call" /\ call.fn = "Table::from_string_force"
    /\ table' = Table_from_string_force(call.s, call.seperation, call.end_line)
    /\ pc' = "built"
    /\ UNCHANGED <<grammar, s, idx, location, result, lines, columns,
                   linecolumn, outcome, call, ret, iter, frames>>

\* `format!("{}", table)`
Display ==
    /\ pc = "built"
    /\ ret' = Table_fmt(table)
    /\ pc' = "done"
    /\ UNCHANGED <<grammar, s, idx, location, result, lines, columns,
                   linecolumn, outcome, call, table, iter, frames>>

BuildNext ==
    \/ FromString
    \/ FromStringForce
    \/ Display

BuildSpec == BuildInit /\ [][BuildNext]_vars

\* the table of the call has been built
Built == pc \in {"built", "done"} /\ call.fn \in TableBuilders

\* C29 (as stated): every line of a table that Table::from_string or
\* Table::from_string_force built has at least one cell, and rendering the
\* table returns its text.
C29_NoEmptyLine ==
    /\ Built => \A i \in 1..Len(table) : Len(table[i]) > 0
    /\ Built /\ Done => ret.kind = "Ok"

\* C29, for Table::from_string alone: its lines have a cell and its
\* tables are rendered.
C29_NoEmptyLineFromString ==
    Built /\ call.fn = "Table::from_string" =>
        /\ \A i \in 1..Len(table) : Len(table[i]) > 0
        /\ Done => ret.kind = "Ok"

(***************************************************************************)
(* ArgError::new (core/src/error/arg_error.rs) and the message of the      *)
(* error it builds.                                                        *)
(***************************************************************************)
ArgErrorKinds == {"NoImplementation", "WrongFormat", "Conflicts", "FormatError"}

\* ArgErrorKind::get_description
ArgErrorKind_get_description(kind) ==
    CASE kind = "NoImplementation" -> "This argument is not implemented fully."
      [] kind = "WrongFormat" -> "The format of this argument is wrong."
      [] kind = "Conflicts" -> "This argument causes conflict(s)"
      [] kind = "FormatError" -> "This file format is unsupported."

\* ArgErrorKind::get_hint
ArgErrorKind_get_hint(kind) ==
    CASE kind = "NoImplementation" -> Some("Please wait for the next version.")
      [] kind = "WrongFormat" -> Some("Please check the format of this argument.")
      [] kind = "Conflicts" -> Some("Please check the reason.")
      [] kind = "FormatError" -> Some("Please check the format of the file.")

\* ArgErrorKind::get_level
ArgErrorKind_get_level(kind) ==
    IF kind = "NoImplementation" THEN "Warning" ELSE "Error"

\* ArgError::new(error_type, reason, error_arg, whole_arg, error_location, hint)
ArgError_new(error_type, reason, error_arg, whole_arg, error_location, hint) ==
    LET hint_ == ArgErrorKind_get_hint(error_type) IN
    [name |-> error_type,
     description |-> ArgErrorKind_get_description(error_type),
     level |-> ArgErrorKind_get_level(error_type),
     reason |-> reason, error_arg |-> error_arg, whole_arg |-> whole_arg,
     error_location |-> error_location,
     hint |-> IF hint = None THEN hint ELSE hint_]

\* impl ErrorType for ArgError: reason()
ArgError_reason(self) ==
    IF self.reason = None THEN None
    ELSE Some(<<"Error happens in \"", self.whole_arg[1], "\", where">>
              \o (IF self.error_arg # None THEN <<" \"", self.error_arg[1], "\" ">>
                  ELSE <<>>)
              \o <<self.reason[1]>>)

\* impl ErrorType for ArgError: what message() asks the error for
ArgError_as_ErrorType(self) ==
    [level |-> self.level, describe |-> self.description, attempt |-> None,
     hint |-> self.hint, reason |-> ArgError_reason(self)]

HintInit ==
    /\ NoValidator
    /\ NoTable
    /\ pc = "call"
    /\ call \in [fn : {"ArgError::new"}, error_type : ArgErrorKinds,
                 reason : Optional({"There is more than one error in this part"}),
                 error_arg : Optional({"1-x"}), whole_arg : {Some("1-x,2l")},
                 error_location : Optional({<<0, 3>>}),
                 hint : Optional({"Use l or c.", "Please check the reason."})]
    /\ ret = None

\* `ArgError::new(..)`
NewArgError ==
    /\ pc = "call" /\ call.fn = "ArgError::new"
    /\ ret' = ArgError_new(call.error_type, call.reason, call.error_arg,
                           call.whole_arg, call.error_location, call.hint)
    /\ pc' = "new"
    /\ UNCHANGED <<grammar, s, idx, location, result, lines, columns,
                   linecolumn, outcome, call, table, iter, frames>>

\* `error.message(ErrorLevel::Warning)`: every level is shown
RenderArgError ==
    /\ pc = "new"
    /\ ret' = message(ArgError_as_ErrorType(ret), "Warning")
    /\ pc' = "done"
    /\ UNCHANGED <<grammar, s, idx, location, result, lines, columns,
                   linecolumn, outcome, call, table, iter, frames>>

HintNext ==
    \/ NewArgError
    \/ RenderArgError

HintSpec == HintInit /\ [][HintNext]_vars

\* C30 (as stated): ArgError::new keeps the hint of the caller when there
\* is one and takes the default hint of the kind when there is none, so the
\* message of every ArgError has a hint section.
C30_HintKept ==
    /\ pc = "new" /\ call.fn = "ArgError::new" =>
           ret.hint = (IF call.hint # None THEN call.hint
                       ELSE ArgErrorKind_get_hint(call.error_type))
    /\ Called("ArgError::new") => PositionIn(ret, HintHeader) # 0

\* C30, what ArgError::new does: without a hint of the caller the error has
\* no hint, with one it has the default hint of its kind.
C30_HintSwapped ==
    pc = "new" /\ call.fn = "ArgError::new" =>
        ret.hint = (IF call.hint = None THEN None
                    ELSE ArgErrorKind_get_hint(call.error_type))

====
